---- MODULE Spec2Model ----
(***************************************************************************)
(* Verification model of the threshold-signature core of kryptology:       *)
(* Feldman verifiable secret sharing, the FROST two-round DKG and the      *)
(* two-round proactive resharing protocol.                                 *)
(*                                                                         *)
(* The prime-order group is Z_Q written additively: a scalar is a number   *)
(* in 0..Q-1, a point is the number GEN*s mod Q for its discrete log s.    *)
(* Scalars travel inside shares as fixed-length byte strings.              *)
(***************************************************************************)
EXTENDS Integers, Sequences, FiniteSets, TLC

\* ------------------------------------------------------------------------
\* Bounds of the model
\* ------------------------------------------------------------------------
\* secrets dealt in DKG Round 1 are drawn from 1..MaxSecret
MaxSecret == 2
\* random polynomial coefficients are drawn from 0..MaxRand
MaxRand == 1

\* ------------------------------------------------------------------------
\* The group abstraction (curves.Curve, curves.Scalar, curves.Point)
\* ------------------------------------------------------------------------
\* order of the group
Q == 7
\* the generator, as an element of Z_Q
GEN == 3
\* Go's nil for a scalar or a point that is not set
Nil == -1
\* a nil *curves.Curve
NilCurve == "nil"
\* a scalar occupies ScalarLen digits of base ByteBase, little endian
ByteBase == 3
ScalarLen == 2

Scalars == 0..(Q - 1)
Points == 0..(Q - 1)

ScalarNew(n) == n % Q
ScalarZero == 0
ScalarOne == 1
ScalarAdd(a, b) == (a + b) % Q
ScalarSub(a, b) == (a + Q - b) % Q
ScalarMul(a, b) == (a * b) % Q
ScalarNeg(a) == (Q - a) % Q
ScalarInvert(a) == CHOOSE b \in Scalars : (a * b) % Q = 1

PointIdentity == 0
PointAdd(p, r) == (p + r) % Q
PointMul(p, s) == (p * s) % Q
ScalarBaseMult(s) == (GEN * s) % Q

\* Scalar.Bytes: the canonical fixed-length encoding
ScalarBytes(s) == <<s % ByteBase, s \div ByteBase>>
\* Scalar.SetBytes: Nil stands for the decoding error (wrong length or a
\* value that is not reduced modulo the group order)
ScalarSetBytes(b) ==
    IF Len(b) # ScalarLen THEN Nil
    ELSE LET v == b[1] + ByteBase * b[2]
         IN IF v >= Q THEN Nil ELSE v

\* ------------------------------------------------------------------------
\* Go maps as functions with a finite domain
\* ------------------------------------------------------------------------
EmptyMap == [x \in {} |-> 0]
Put(m, k, v) == [x \in (DOMAIN m) \cup {k} |-> IF x = k THEN v ELSE m[x]]
Range(s) == {s[k] : k \in DOMAIN s}
NoDup(s) == \A a, b \in DOMAIN s : a # b => s[a] # s[b]

RECURSIVE SetToSeq(_)
SetToSeq(S) ==
    IF S = {} THEN <<>>
    ELSE LET x == CHOOSE y \in S : \A z \in S : y <= z
         IN <<x>> \o SetToSeq(S \ {x})

\* all orders in which a Go range loop may visit the keys of a map
Orders(S) == {o \in [1..Cardinality(S) -> S] : Range(o) = S}

\* ------------------------------------------------------------------------
\* sharing.Polynomial
\* ------------------------------------------------------------------------
PolynomialInit(secret, rnd) == <<secret>> \o rnd

RECURSIVE HornerScalar(_, _, _, _)
HornerScalar(coefs, x, k, out) ==
    IF k = 0 THEN out
    ELSE HornerScalar(coefs, x, k - 1, ScalarAdd(ScalarMul(out, x), coefs[k]))

PolynomialEvaluate(coefs, x) ==
    HornerScalar(coefs, x, Len(coefs) - 1, coefs[Len(coefs)])

\* ------------------------------------------------------------------------
\* frost.EvalCommitmentPoly: Horner evaluation in the group.  An empty
\* coefficient vector is an index out of range in Go: Nil stands for it.
\* ------------------------------------------------------------------------
RECURSIVE HornerPoint(_, _, _, _)
HornerPoint(coefs, x, k, out) ==
    IF k = 0 THEN out
    ELSE HornerPoint(coefs, x, k - 1, PointAdd(PointMul(out, x), coefs[k]))

\* an evaluation that starts from the identity in place of the leading coefficient
EvalCommitmentPolyNoLead(coefs, x) ==
    IF Len(coefs) = 0 THEN Nil
    ELSE HornerPoint(coefs, x, Len(coefs) - 1, PointIdentity)

EvalCommitmentPoly(coefs, x) ==
    IF Len(coefs) = 0 THEN Nil
    ELSE HornerPoint(coefs, x, Len(coefs) - 1, coefs[Len(coefs)])

\* ------------------------------------------------------------------------
\* sharing.ShamirShare, sharing.Shamir
\* ------------------------------------------------------------------------
ShamirShare(id, value) == [Id |-> id, Value |-> value]

\* ShamirShare.Validate
ShareValidate(share) ==
    IF share.Id = 0 THEN "invalid identifier"
    ELSE IF ScalarSetBytes(share.Value) = Nil THEN "invalid share"
    ELSE "nil"

NewShamir(threshold, limit) ==
    IF limit < threshold THEN [err |-> "limit cannot be less than threshold"]
    ELSE IF threshold < 2 THEN [err |-> "threshold cannot be less than 2"]
    ELSE IF limit > 255 THEN [err |-> "cannot exceed 255 shares"]
    ELSE [err |-> "nil", threshold |-> threshold, limit |-> limit]

RECURSIVE LagrangeProduct(_, _)
\* product over k in ks of (-k) * (j - k)^-1
LagrangeProduct(j, ks) ==
    IF ks = {} THEN ScalarOne
    ELSE LET k == CHOOSE y \in ks : TRUE
         IN ScalarMul(
                ScalarMul(ScalarNeg(ScalarNew(k)),
                          ScalarInvert(ScalarSub(ScalarNew(j), ScalarNew(k)))),
                LagrangeProduct(j, ks \ {k}))

\* Shamir.LagrangeCoeffs on the identifier list xs
LagrangeCoeffs(shamir, xs) ==
    IF Len(xs) < shamir.threshold THEN [err |-> "invalid number of shares"]
    ELSE IF \E k \in DOMAIN xs : xs[k] = 0 THEN [err |-> "invalid identifier"]
    ELSE IF ~NoDup(xs) THEN [err |-> "duplicate share"]
    ELSE [err |-> "nil",
          coeffs |-> [j \in Range(xs) |-> LagrangeProduct(j, Range(xs) \ {j})]]

RECURSIVE SumScalars(_, _)
SumScalars(f, ks) ==
    IF ks = {} THEN ScalarZero
    ELSE LET k == CHOOSE y \in ks : TRUE
         IN ScalarAdd(f[k], SumScalars(f, ks \ {k}))

RECURSIVE SumPoints(_, _)
SumPoints(f, ks) ==
    IF ks = {} THEN PointIdentity
    ELSE LET k == CHOOSE y \in ks : TRUE
         IN PointAdd(f[k], SumPoints(f, ks \ {k}))

\* Shamir.Combine on the share list shares
ShamirCombine(shamir, shares) ==
    LET xs == [k \in DOMAIN shares |-> shares[k].Id]
        l == LagrangeCoeffs(shamir, xs)
    IN IF Len(shares) < shamir.threshold THEN [err |-> "invalid number of shares"]
       ELSE IF \E k \in DOMAIN shares : ShareValidate(shares[k]) # "nil"
            THEN [err |-> "invalid share"]
       ELSE IF l.err # "nil" THEN [err |-> l.err]
       ELSE [err |-> "nil",
             secret |-> SumScalars(
                 [k \in DOMAIN shares |->
                     ScalarMul(l.coeffs[shares[k].Id], ScalarSetBytes(shares[k].Value))],
                 DOMAIN shares)]

\* ------------------------------------------------------------------------
\* sharing.Feldman, sharing.FeldmanVerifier
\* ------------------------------------------------------------------------
\* the identifiers of a scheme built without any: IDs[i] = i + 1 for i < limit
DefaultIDs(limit) == [i \in 1..limit |-> i]

RECURSIVE FeldmanScanIDs(_, _, _)
\* the loop of NewFeldman over the identifiers, idMap being the ids seen
FeldmanScanIDs(IDs, k, idMap) ==
    IF k > Len(IDs) THEN "nil"
    ELSE IF IDs[k] = 0 THEN "id cannot be 0"
    ELSE IF IDs[k] \in idMap THEN "duplicate id found"
    ELSE FeldmanScanIDs(IDs, k + 1, idMap \cup {IDs[k]})

\* a constructor that does not look at the identifiers
NewFeldmanAnyIDs(threshold, limit, curve, IDs) ==
    IF limit < threshold THEN [err |-> "limit cannot be less than threshold"]
    ELSE IF threshold < 2 THEN [err |-> "threshold cannot be less than 2"]
    ELSE IF limit > 255 THEN [err |-> "cannot exceed 255 shares"]
    ELSE IF curve = NilCurve THEN [err |-> "invalid curve"]
    ELSE IF Len(IDs) > 0 /\ Len(IDs) # limit
         THEN [err |-> "length of IDs must be equal to limit"]
    ELSE [err |-> "nil", Threshold |-> threshold, Limit |-> limit,
          IDs |-> IF Len(IDs) = 0 THEN DefaultIDs(limit) ELSE IDs]

NewFeldman(threshold, limit, curve, IDs) ==
    IF limit < threshold THEN [err |-> "limit cannot be less than threshold"]
    ELSE IF threshold < 2 THEN [err |-> "threshold cannot be less than 2"]
    ELSE IF limit > 255 THEN [err |-> "cannot exceed 255 shares"]
    ELSE IF curve = NilCurve THEN [err |-> "invalid curve"]
    ELSE IF Len(IDs) > 0 /\ Len(IDs) # limit
         THEN [err |-> "length of IDs must be equal to limit"]
    ELSE IF FeldmanScanIDs(IDs, 1, {}) # "nil" THEN [err |-> FeldmanScanIDs(IDs, 1, {})]
    ELSE [err |-> "nil", Threshold |-> threshold, Limit |-> limit,
          IDs |-> IF Len(IDs) = 0 THEN DefaultIDs(limit) ELSE IDs]

\* a Split that shares secret + 1 in place of secret
FeldmanSplitShifted(f, secret, rnd) ==
    IF secret = 0
    THEN [err |-> "invalid secret", verifier |-> <<>>, shares |-> EmptyMap]
    ELSE LET poly == PolynomialInit(ScalarAdd(secret, ScalarOne), rnd)
         IN [err |-> "nil",
             verifier |-> [k \in 1..f.Threshold |-> ScalarBaseMult(poly[k])],
             shares |-> [id \in Range(f.IDs) |->
                 ShamirShare(id, ScalarBytes(PolynomialEvaluate(poly, ScalarNew(id))))]]

\* a Split that keys each share by its position in the identifier list
FeldmanSplitByPosition(f, secret, rnd) ==
    IF secret = 0
    THEN [err |-> "invalid secret", verifier |-> <<>>, shares |-> EmptyMap]
    ELSE LET poly == PolynomialInit(secret, rnd)
         IN [err |-> "nil",
             verifier |-> [k \in 1..f.Threshold |-> ScalarBaseMult(poly[k])],
             shares |-> [k \in DOMAIN f.IDs |->
                 ShamirShare(f.IDs[k],
                             ScalarBytes(PolynomialEvaluate(poly, ScalarNew(f.IDs[k]))))]]

\* Feldman.Split; rnd are the Threshold-1 coefficients read from the reader
FeldmanSplit(f, secret, rnd) ==
    IF secret = 0
    THEN [err |-> "invalid secret", verifier |-> <<>>, shares |-> EmptyMap]
    ELSE LET poly == PolynomialInit(secret, rnd)
         IN [err |-> "nil",
             verifier |-> [k \in 1..f.Threshold |-> ScalarBaseMult(poly[k])],
             shares |-> [id \in Range(f.IDs) |->
                 ShamirShare(id, ScalarBytes(PolynomialEvaluate(poly, ScalarNew(id))))]]

RECURSIVE VerifyRhsStalePower(_, _, _, _, _)
\* a loop that multiplies the commitment by the power of the previous round
VerifyRhsStalePower(commitments, x, j, i, rhs) ==
    IF j > Len(commitments) THEN rhs
    ELSE LET i2 == ScalarMul(i, x)
         IN VerifyRhsStalePower(commitments, x, j + 1, i2,
                                PointAdd(rhs, PointMul(commitments[j], i)))

RECURSIVE VerifyRhs(_, _, _, _, _)
\* the loop of FeldmanVerifier.Verify: i is x^(j-1), rhs the partial sum
VerifyRhs(commitments, x, j, i, rhs) ==
    IF j > Len(commitments) THEN rhs
    ELSE LET i2 == ScalarMul(i, x)
         IN VerifyRhs(commitments, x, j + 1, i2,
                      PointAdd(rhs, PointMul(commitments[j], i2)))

\* a Verify whose sum leaves out the constant commitment
FeldmanVerifyNoConstant(commitments, share) ==
    IF ShareValidate(share) # "nil" THEN ShareValidate(share)
    ELSE LET x == ScalarNew(share.Id)
             rhs == VerifyRhs(commitments, x, 2, ScalarOne, PointIdentity)
             lhs == ScalarBaseMult(ScalarSetBytes(share.Value))
         IN IF lhs = rhs THEN "nil" ELSE "not equal"

\* FeldmanVerifier.Verify: "nil" when the share is accepted
FeldmanVerify(commitments, share) ==
    IF ShareValidate(share) # "nil" THEN ShareValidate(share)
    ELSE LET x == ScalarNew(share.Id)
             rhs == VerifyRhs(commitments, x, 2, ScalarOne, commitments[1])
             lhs == ScalarBaseMult(ScalarSetBytes(share.Value))
         IN IF lhs = rhs THEN "nil" ELSE "not equal"

\* a Combine that hands Shamir the limit as the threshold
FeldmanCombineLimit(f, shares) ==
    ShamirCombine([err |-> "nil", threshold |-> f.Limit, limit |-> f.Limit], shares)

\* a Combine that hands Shamir no threshold
FeldmanCombineNoThreshold(f, shares) ==
    ShamirCombine([err |-> "nil", threshold |-> 0, limit |-> f.Limit], shares)

\* Feldman.Combine on the share list shares
FeldmanCombine(f, shares) ==
    ShamirCombine([err |-> "nil", threshold |-> f.Threshold, limit |-> f.Limit], shares)

\* Feldman.LagrangeCoeffs on the share map shares
FeldmanLagrangeCoeffs(f, shares) ==
    LagrangeCoeffs([err |-> "nil", threshold |-> f.Threshold, limit |-> f.Limit],
                   SetToSeq({shares[k].Id : k \in DOMAIN shares}))

\* ------------------------------------------------------------------------
\* gg20 resharing: calculateLagrangeCoefficient on big integers
\* ------------------------------------------------------------------------
\* big.Int.Mod: the Euclidean modulus, never negative
BigMod(a, m) == ((a % m) + m) % m

\* big.Int.ModInverse: Nil when a has no inverse modulo m
BigModInverse(a, m) ==
    IF \E b \in 1..(m - 1) : BigMod(a * b, m) = 1
    THEN CHOOSE b \in 1..(m - 1) : BigMod(a * b, m) = 1
    ELSE Nil

RECURSIVE LagrangeLoopUnsigned(_, _, _, _, _, _)
\* a loop that multiplies the numerator by otherID in place of -otherID
LagrangeLoopUnsigned(partyID, allPartyIDs, modulus, k, numerator, denominator) ==
    IF k > Len(allPartyIDs) THEN <<numerator, denominator>>
    ELSE IF allPartyIDs[k] = partyID
         THEN LagrangeLoopUnsigned(partyID, allPartyIDs, modulus, k + 1, numerator, denominator)
    ELSE LagrangeLoopUnsigned(partyID, allPartyIDs, modulus, k + 1,
                              BigMod(numerator * allPartyIDs[k], modulus),
                              BigMod(denominator * (partyID - allPartyIDs[k]), modulus))

RECURSIVE LagrangeLoop(_, _, _, _, _, _)
\* the loop of calculateLagrangeCoefficient over allPartyIDs
LagrangeLoop(partyID, allPartyIDs, modulus, k, numerator, denominator) ==
    IF k > Len(allPartyIDs) THEN <<numerator, denominator>>
    ELSE IF allPartyIDs[k] = partyID
         THEN LagrangeLoop(partyID, allPartyIDs, modulus, k + 1, numerator, denominator)
    ELSE LagrangeLoop(partyID, allPartyIDs, modulus, k + 1,
                      BigMod(numerator * (0 - allPartyIDs[k]), modulus),
                      BigMod(denominator * (partyID - allPartyIDs[k]), modulus))

\* calculateLagrangeCoefficient; "panic" when the denominator has no inverse
calculateLagrangeCoefficient(partyID, allPartyIDs, modulus) ==
    LET nd == LagrangeLoop(partyID, allPartyIDs, modulus, 1, 1, 1)
        numerator == IF nd[1] < 0 THEN nd[1] + modulus ELSE nd[1]
        denominator == IF nd[2] < 0 THEN nd[2] + modulus ELSE nd[2]
        denomInv == BigModInverse(denominator, modulus)
    IN IF denomInv = Nil THEN "panic"
       ELSE BigMod(numerator * denomInv, modulus)

\* ------------------------------------------------------------------------
\* Errors returned by the protocol operations: a message and, for the
\* sub-share check of resharing round 2, the sender i and the recipient j
\* ------------------------------------------------------------------------
Err(msg, i, j) == [msg |-> msg, i |-> i, j |-> j]
NoErr == Err("nil", 0, 0)
ErrNilArguments == Err("nil arguments", 0, 0)
ErrInvalidRound == Err("invalid round", 0, 0)

\* before the first call of a GG20 resharing nothing has been returned
GG20RetInit ==
    [op |-> "init", id |-> 0, status |-> "ok", err |-> NoErr, out |-> 0,
     adversarial |-> FALSE]

\* ------------------------------------------------------------------------
\* frost.DkgParticipant
\* ------------------------------------------------------------------------
\* the curve every participant of the model is built on
Curve == "ed25519"

\* a constructor that starts the participant past round 1
NewDkgParticipantRound2(id, threshold, curve, otherParticipants) ==
    IF curve = NilCurve \/ Len(otherParticipants) = 0
    THEN [err |-> ErrNilArguments]
    ELSE LET limit == Len(otherParticipants) + 1
             feldman == NewFeldman(threshold, limit, curve, otherParticipants \o <<id>>)
         IN IF feldman.err # "nil" THEN [err |-> Err(feldman.err, 0, 0)]
            ELSE [err |-> NoErr,
                  dp |-> [Id |-> id,
                          round |-> 2,
                          Threshold |-> threshold,
                          feldman |-> feldman,
                          otherParticipantShares |-> Range(otherParticipants),
                          SkShare |-> Nil,
                          VerificationKey |-> Nil,
                          VkShare |-> Nil,
                          Commitments |-> <<>>,
                          verifiers |-> <<>>,
                          secretShares |-> EmptyMap]]

NewDkgParticipant(id, threshold, curve, otherParticipants) ==
    IF curve = NilCurve \/ Len(otherParticipants) = 0
    THEN [err |-> ErrNilArguments]
    ELSE LET limit == Len(otherParticipants) + 1
             feldman == NewFeldman(threshold, limit, curve, otherParticipants \o <<id>>)
         IN IF feldman.err # "nil" THEN [err |-> Err(feldman.err, 0, 0)]
            ELSE [err |-> NoErr,
                  dp |-> [Id |-> id,
                          round |-> 1,
                          Threshold |-> threshold,
                          feldman |-> feldman,
                          otherParticipantShares |-> Range(otherParticipants),
                          SkShare |-> Nil,
                          VerificationKey |-> Nil,
                          VkShare |-> Nil,
                          Commitments |-> <<>>,
                          verifiers |-> <<>>,
                          secretShares |-> EmptyMap]]

\* DkgParticipant.Round1 with the secret and the coefficients it draws
Round1(dp, secret, rnd) ==
    IF dp.round # 1
    THEN [err |-> ErrInvalidRound, dp |-> dp, bcast |-> <<>>, p2psend |-> EmptyMap]
    ELSE LET s == FeldmanSplit(dp.feldman, secret, rnd)
         IN IF s.err # "nil"
            THEN [err |-> Err(s.err, 0, 0), dp |-> dp, bcast |-> <<>>, p2psend |-> EmptyMap]
            ELSE [err |-> NoErr,
                  dp |-> [dp EXCEPT !.round = 2,
                                    !.verifiers = s.verifier,
                                    !.secretShares = s.shares],
                  bcast |-> s.verifier,
                  p2psend |-> [j \in dp.otherParticipantShares |-> s.shares[j]]]

\* step 1 of Round 2: the structural checks on the inputs
Round2CheckInputs(dp, bcast, p2psend) ==
    /\ DOMAIN p2psend = dp.otherParticipantShares
    /\ dp.otherParticipantShares \subseteq DOMAIN bcast
    /\ DOMAIN bcast \subseteq dp.otherParticipantShares \cup {dp.Id}
    /\ \A j \in dp.otherParticipantShares :
           /\ Len(bcast[j]) = dp.Threshold
           /\ p2psend[j].Id = dp.Id
           /\ ScalarSetBytes(p2psend[j].Value) # Nil

\* steps 3-5 of Round 2: the share and the joint commitments
Round2SkShare(dp, p2psend) ==
    ScalarAdd(ScalarSetBytes(dp.secretShares[dp.Id].Value),
              SumScalars([j \in DOMAIN p2psend |-> ScalarSetBytes(p2psend[j].Value)],
                         DOMAIN p2psend))

Round2Commitments(dp, bcast) ==
    [k \in 1..dp.Threshold |->
        PointAdd(dp.verifiers[k],
                 SumPoints([j \in dp.otherParticipantShares |-> bcast[j][k]],
                           dp.otherParticipantShares))]

\* steps 5 and 7 of Round 2: the result stored in the participant (a variant
\* that keeps the participant's own constant commitment as the key comes first)
Round2WriteBackOwnKey(dp, skShare, commitments) ==
    [dp EXCEPT !.round = 3,
               !.SkShare = skShare,
               !.Commitments = commitments,
               !.VerificationKey = dp.verifiers[1],
               !.VkShare = ScalarBaseMult(skShare)]

Round2WriteBack(dp, skShare, commitments) ==
    [dp EXCEPT !.round = 3,
               !.SkShare = skShare,
               !.Commitments = commitments,
               !.VerificationKey = commitments[1],
               !.VkShare = ScalarBaseMult(skShare)]

\* DkgParticipant.Round2
Round2(dp, bcast, p2psend) ==
    IF dp.round # 2 THEN [err |-> ErrInvalidRound, dp |-> dp]
    ELSE IF ~Round2CheckInputs(dp, bcast, p2psend)
    THEN [err |-> ErrNilArguments, dp |-> dp]
    ELSE IF \E j \in dp.otherParticipantShares : FeldmanVerify(bcast[j], p2psend[j]) # "nil"
    THEN LET j == CHOOSE x \in dp.otherParticipantShares :
                      FeldmanVerify(bcast[x], p2psend[x]) # "nil"
         IN [err |-> Err("invalid share", j, dp.Id), dp |-> dp]
    ELSE LET skShare == Round2SkShare(dp, p2psend)
             commitments == Round2Commitments(dp, bcast)
         IN IF ScalarBaseMult(skShare) # EvalCommitmentPoly(commitments, ScalarNew(dp.Id))
            THEN [err |-> Err("invalid share", dp.Id, dp.Id), dp |-> dp]
            ELSE [err |-> NoErr, dp |-> Round2WriteBack(dp, skShare, commitments)]

\* ------------------------------------------------------------------------
\* frost.Resharing
\* ------------------------------------------------------------------------
\* a constructor without the scan for duplicates
NewResharingNoScan(threshold, curve, resharingParticipantIDs, newParticipantIDs) ==
    IF curve = NilCurve \/ Len(newParticipantIDs) = 0 \/ Len(resharingParticipantIDs) = 0
    THEN [err |-> ErrNilArguments]
    ELSE LET feldman == NewFeldman(threshold, Len(newParticipantIDs), curve, newParticipantIDs)
         IN IF feldman.err # "nil" THEN [err |-> Err(feldman.err, 0, 0)]
            ELSE [err |-> NoErr,
                  Threshold |-> threshold,
                  NewParticipantIDs |-> newParticipantIDs,
                  ResharingParticipantIDs |-> resharingParticipantIDs,
                  feldman |-> feldman]

NewResharing(threshold, curve, resharingParticipantIDs, newParticipantIDs) ==
    IF curve = NilCurve \/ Len(newParticipantIDs) = 0 \/ Len(resharingParticipantIDs) = 0
    THEN [err |-> ErrNilArguments]
    ELSE IF ~NoDup(resharingParticipantIDs)
    THEN [err |-> Err("duplicate resharing participant ID", 0, 0)]
    ELSE LET feldman == NewFeldman(threshold, Len(newParticipantIDs), curve, newParticipantIDs)
         IN IF feldman.err # "nil" THEN [err |-> Err(feldman.err, 0, 0)]
            ELSE [err |-> NoErr,
                  Threshold |-> threshold,
                  NewParticipantIDs |-> newParticipantIDs,
                  ResharingParticipantIDs |-> resharingParticipantIDs,
                  feldman |-> feldman]

ResharingBcast(As, PHIs) == [As |-> As, PHIs |-> PHIs]

\* a round 1 that broadcasts its new commitments as PHIs too
ResharingRound1OwnPHIs(res, rp, rnd) ==
    IF rp.SkShare = Nil \/ rp.Commitments = <<>>
    THEN [err |-> ErrNilArguments]
    ELSE IF rp.Id \notin Range(res.ResharingParticipantIDs)
    THEN [err |-> Err("participant is not in the resharing participant IDs", rp.Id, 0)]
    ELSE LET s == FeldmanSplit(res.feldman, rp.SkShare, rnd)
         IN IF s.err # "nil" THEN [err |-> Err(s.err, 0, 0)]
            ELSE [err |-> NoErr,
                  bcast |-> ResharingBcast(s.verifier, s.verifier),
                  p2psend |-> s.shares]

\* Resharing.ResharingRound1 with the coefficients it draws
ResharingRound1(res, rp, rnd) ==
    IF rp.SkShare = Nil \/ rp.Commitments = <<>>
    THEN [err |-> ErrNilArguments]
    ELSE IF rp.Id \notin Range(res.ResharingParticipantIDs)
    THEN [err |-> Err("participant is not in the resharing participant IDs", rp.Id, 0)]
    ELSE LET s == FeldmanSplit(res.feldman, rp.SkShare, rnd)
         IN IF s.err # "nil" THEN [err |-> Err(s.err, 0, 0)]
            ELSE [err |-> NoErr,
                  bcast |-> ResharingBcast(s.verifier, rp.Commitments),
                  p2psend |-> s.shares]

\* DkgParticipant.ResharingRound1, the round 1 that takes the new threshold and
\* the new identifiers and builds the polynomial itself; rnd are the
\* newThreshold-1 coefficients it draws.  A threshold below 1 is an index out
\* of range and a failed sub-share check is a panic: status "panic".
DkgResharingRound1(dp, newThreshold, newParticipants, rnd) ==
    IF dp.SkShare = Nil \/ dp.Commitments = <<>>
    THEN [status |-> "ok", err |-> ErrNilArguments]
    ELSE IF newThreshold < 1 THEN [status |-> "panic", err |-> Err("index out of range", 0, 0)]
    ELSE LET poly == <<dp.SkShare>> \o rnd
             As == [k \in 1..newThreshold |-> ScalarBaseMult(poly[k])]
             share(j) == PolynomialEvaluate(poly, ScalarNew(j))
         IN IF \E j \in Range(newParticipants) :
                   EvalCommitmentPoly(As, ScalarNew(j)) # ScalarBaseMult(share(j))
            THEN [status |-> "panic", err |-> Err("invalid share", 0, 0)]
            ELSE [status |-> "ok", err |-> NoErr,
                  bcast |-> ResharingBcast(As, dp.Commitments),
                  p2psend |-> [j \in Range(newParticipants) |->
                                  ShamirShare(j, ScalarBytes(share(j)))]]

\* ------------------------------------------------------------------------
\* GG20 key resharing: ReshareParticipant and its rounds
\* ------------------------------------------------------------------------
\* a nil pointer to a struct
NilPtr == [isNil |-> TRUE]

\* the two primes NewReshareParticipant builds every new Paillier key from,
\* scaled down
PaillierP == 11
PaillierQ == 13

\* paillier.NewSecretKey(p, q): the key is a function of its two primes
PaillierNewSecretKey(p, q) == [isNil |-> FALSE, P |-> p, Q |-> q, PublicKey |-> p * q]

\* dealer.Share
DealerShare(id, value, point) ==
    [isNil |-> FALSE, Identifier |-> id, Value |-> value, Point |-> point]

\* dealer.ParticipantData
ParticipantData(id, share, decryptKey) ==
    [isNil |-> FALSE, Id |-> id, SecretKeyShare |-> share, DecryptKey |-> decryptKey]

GG20Config(oldThreshold, newThreshold, oldParties, newParties) ==
    [isNil |-> FALSE, OldThreshold |-> oldThreshold, NewThreshold |-> newThreshold,
     OldParties |-> oldParties, NewParties |-> newParties]

\* a constructor that starts the participant in round 2
NewReshareParticipantRound2(id, oldParticipantData, publicKey, config) ==
    IF config = NilPtr \/ publicKey = Nil
    THEN [err |-> ErrNilArguments, rp |-> NilPtr]
    ELSE IF oldParticipantData # NilPtr /\ oldParticipantData.Id # id
    THEN [err |-> Err("participant ID mismatch", oldParticipantData.Id, id), rp |-> NilPtr]
    ELSE LET oldShare == IF oldParticipantData # NilPtr
                         THEN oldParticipantData.SecretKeyShare ELSE NilPtr
             oldKey == IF oldParticipantData # NilPtr
                       THEN oldParticipantData.DecryptKey ELSE NilPtr
             paillierKey == IF oldKey = NilPtr
                            THEN PaillierNewSecretKey(PaillierP, PaillierQ) ELSE oldKey
         IN [err |-> NoErr,
             rp |-> [isNil |-> FALSE, ID |-> id, Round |-> 2, OldShare |-> oldShare,
                     NewShare |-> NilPtr, PublicKey |-> publicKey,
                     PaillierKey |-> paillierKey, PaillierPubKey |-> paillierKey.PublicKey,
                     Config |-> config, coefficients |-> <<>>, commitments |-> <<>>,
                     receivedShares |-> EmptyMap, paillierKeys |-> EmptyMap,
                     publicShares |-> EmptyMap]]

\* NewReshareParticipant: an existing participant brings its old share and its
\* old Paillier key; a participant without a key gets one from the fixed primes
NewReshareParticipant(id, oldParticipantData, publicKey, config) ==
    IF config = NilPtr \/ publicKey = Nil
    THEN [err |-> ErrNilArguments, rp |-> NilPtr]
    ELSE IF oldParticipantData # NilPtr /\ oldParticipantData.Id # id
    THEN [err |-> Err("participant ID mismatch", oldParticipantData.Id, id), rp |-> NilPtr]
    ELSE LET oldShare == IF oldParticipantData # NilPtr
                         THEN oldParticipantData.SecretKeyShare ELSE NilPtr
             oldKey == IF oldParticipantData # NilPtr
                       THEN oldParticipantData.DecryptKey ELSE NilPtr
             paillierKey == IF oldKey = NilPtr
                            THEN PaillierNewSecretKey(PaillierP, PaillierQ) ELSE oldKey
         IN [err |-> NoErr,
             rp |-> [isNil |-> FALSE, ID |-> id, Round |-> 1, OldShare |-> oldShare,
                     NewShare |-> NilPtr, PublicKey |-> publicKey,
                     PaillierKey |-> paillierKey, PaillierPubKey |-> paillierKey.PublicKey,
                     Config |-> config, coefficients |-> <<>>, commitments |-> <<>>,
                     receivedShares |-> EmptyMap, paillierKeys |-> EmptyMap,
                     publicShares |-> EmptyMap]]

RECURSIVE evaluatePolynomialLoop(_, _, _, _, _, _)
evaluatePolynomialLoop(coefficients, x, modulus, i, result, xPower) ==
    IF i > Len(coefficients) THEN result
    ELSE evaluatePolynomialLoop(coefficients, x, modulus, i + 1,
                                BigMod(result + coefficients[i] * xPower, modulus),
                                BigMod(xPower * x, modulus))

\* evaluatePolynomial: coefficients[0] + sum of coefficients[i] * x^i mod modulus
evaluatePolynomial(coefficients, x, modulus) ==
    evaluatePolynomialLoop(coefficients, x, modulus, 2, coefficients[1], x)

\* what a call on a ReshareParticipant returns: "ok", "error" or "panic", the
\* error, the participant after the call and the value returned
GG20Out(status, err, rp, out) == [status |-> status, err |-> err, rp |-> rp, out |-> out]

ReshareRound1Bcast(from, to, share, commitments) ==
    [FromID |-> from, ToID |-> to, Share |-> share, Commitments |-> commitments]

\* ReshareRound1 with the share itself as constant term
GG20ReshareRound1NoLagrange(rp, rnd) ==
    IF rp.Config = NilPtr THEN GG20Out("error", ErrNilArguments, rp, EmptyMap)
    ELSE IF rp.OldShare = NilPtr
    THEN GG20Out("error", Err("only old participants with shares can execute round 1", 0, 0),
                 rp, EmptyMap)
    ELSE IF rp.Round # 1 THEN GG20Out("error", ErrInvalidRound, rp, EmptyMap)
    ELSE LET coefficients == <<rp.OldShare.Value>> \o rnd
             commitments == [i \in 1..Len(coefficients) |-> ScalarBaseMult(coefficients[i])]
         IN GG20Out("ok", NoErr,
                    [rp EXCEPT !.coefficients = coefficients,
                               !.commitments = commitments,
                               !.Round = 2],
                    [newID \in Range(rp.Config.NewParties) |->
                        ReshareRound1Bcast(rp.ID, newID,
                                           evaluatePolynomial(coefficients, newID, Q),
                                           commitments)])

\* a ReshareRound1 that looks at the round before the old share
GG20ReshareRound1RoundFirst(rp, rnd) ==
    IF rp.Config = NilPtr THEN GG20Out("error", ErrNilArguments, rp, EmptyMap)
    ELSE IF rp.Round # 1 THEN GG20Out("error", ErrInvalidRound, rp, EmptyMap)
    ELSE IF rp.OldShare = NilPtr
    THEN GG20Out("error", Err("only old participants with shares can execute round 1", 0, 0),
                 rp, EmptyMap)
    ELSE GG20ReshareRound1NoLagrange(rp, rnd)

\* a ReshareRound1 that deals in whatever round the participant is
GG20ReshareRound1AnyRound(rp, rnd) ==
    IF rp.Config = NilPtr THEN GG20Out("error", ErrNilArguments, rp, EmptyMap)
    ELSE IF rp.OldShare = NilPtr
    THEN GG20Out("error", Err("only old participants with shares can execute round 1", 0, 0),
                 rp, EmptyMap)
    ELSE GG20ReshareRound1NoLagrange([rp EXCEPT !.Round = 1], rnd)

\* ReshareRound1 of the GG20 resharing; rnd are the coefficients rand.Int draws
GG20ReshareRound1(rp, rnd) ==
    IF rp.Config = NilPtr THEN GG20Out("error", ErrNilArguments, rp, EmptyMap)
    ELSE IF rp.OldShare = NilPtr
    THEN GG20Out("error", Err("only old participants with shares can execute round 1", 0, 0),
                 rp, EmptyMap)
    ELSE IF rp.Round # 1 THEN GG20Out("error", ErrInvalidRound, rp, EmptyMap)
    ELSE LET secret == rp.OldShare.Value
             threshold == rp.Config.NewThreshold
             lagrangeCoeff == calculateLagrangeCoefficient(rp.ID, rp.Config.OldParties, Q)
             nd == LagrangeLoop(rp.ID, rp.Config.OldParties, Q, 1, 1, 1)
         IN IF BigModInverse(BigMod(nd[2], Q), Q) = Nil
            THEN GG20Out("panic", Err("failed to compute modular inverse", rp.ID, 0), rp, EmptyMap)
            ELSE IF threshold = 0
            THEN GG20Out("panic", Err("index out of range", rp.ID, 0), rp, EmptyMap)
            ELSE LET adjustedSecret == BigMod(secret * lagrangeCoeff, Q)
                     coefficients == <<adjustedSecret>> \o rnd
                     commitments == [i \in 1..threshold |-> ScalarBaseMult(coefficients[i])]
                 IN GG20Out("ok", NoErr,
                            [rp EXCEPT !.coefficients = coefficients,
                                       !.commitments = commitments,
                                       !.Round = 2],
                            [newID \in Range(rp.Config.NewParties) |->
                                ReshareRound1Bcast(rp.ID, newID,
                                                   evaluatePolynomial(coefficients, newID, Q),
                                                   commitments)])

RECURSIVE verifyFeldmanLoop(_, _, _, _, _)
verifyFeldmanLoop(rp, commitments, i, xPower, expected) ==
    IF i > Len(commitments) THEN expected
    ELSE IF i = 1 THEN verifyFeldmanLoop(rp, commitments, 2, xPower, commitments[1])
    ELSE LET xp == BigMod(xPower * rp.ID, Q)
         IN verifyFeldmanLoop(rp, commitments, i + 1, xp,
                              PointAdd(expected, PointMul(commitments[i], xp)))

\* with no commitment at all expected stays nil and the comparison of
\* verifyFeldmanShare dereferences it
verifyFeldmanSharePanics(msg) == Len(msg.Commitments) = 0

\* a check that looks at the constant commitment only
verifyFeldmanShareConstantOnly(rp, msg) ==
    ScalarBaseMult(msg.Share) = msg.Commitments[1]

\* verifyFeldmanShare: g * share = sum of commitment_i * id^i
verifyFeldmanShare(rp, msg) ==
    ScalarBaseMult(msg.Share) = verifyFeldmanLoop(rp, msg.Commitments, 1, 1, Nil)

\* the loop of ReshareRound1Accept that verifies and stores each share
RECURSIVE Round1AcceptLoop(_, _, _)
Round1AcceptLoop(rp, messages, k) ==
    IF k > Len(messages) THEN GG20Out("ok", NoErr, rp, Nil)
    ELSE LET msg == messages[k]
         IN IF msg.ToID # rp.ID
            THEN GG20Out("error", Err("received share for wrong participant", rp.ID, msg.ToID),
                         rp, Nil)
            ELSE IF verifyFeldmanSharePanics(msg)
            THEN GG20Out("panic", Err("nil pointer dereference", msg.FromID, 0), rp, Nil)
            ELSE IF ~verifyFeldmanShare(rp, msg)
            THEN GG20Out("error", Err("invalid share from participant", msg.FromID, 0), rp, Nil)
            ELSE Round1AcceptLoop([rp EXCEPT !.receivedShares = Put(@, msg.FromID, msg.Share)],
                                  messages, k + 1)

\* sum of the received shares mod the group order
RECURSIVE SumReceived(_, _)
SumReceived(receivedShares, ids) ==
    IF ids = {} THEN 0
    ELSE LET i == CHOOSE x \in ids : TRUE
         IN BigMod(receivedShares[i] + SumReceived(receivedShares, ids \ {i}), Q)

\* a ReshareRound1Accept without the count of the messages
GG20ReshareRound1AcceptAnyCount(rp, messages) ==
    IF rp.Config = NilPtr THEN GG20Out("error", ErrNilArguments, rp, Nil)
    ELSE IF ~(rp.OldShare # NilPtr /\ rp.Round = 2) /\ rp.Round # 1
    THEN GG20Out("error", ErrInvalidRound, rp, Nil)
    ELSE LET loop == Round1AcceptLoop(rp, messages, 1)
         IN IF loop.status # "ok" THEN loop
            ELSE LET newShareValue == SumReceived(loop.rp.receivedShares,
                                                  DOMAIN loop.rp.receivedShares)
                 IN GG20Out("ok", NoErr,
                            [loop.rp EXCEPT
                                !.NewShare = DealerShare(rp.ID, newShareValue,
                                                         ScalarBaseMult(newShareValue)),
                                !.Round = IF rp.Round = 1 THEN 2 ELSE rp.Round],
                            Nil)

\* ReshareRound1Accept
GG20ReshareRound1Accept(rp, messages) ==
    IF rp.Config = NilPtr THEN GG20Out("error", ErrNilArguments, rp, Nil)
    ELSE IF ~(rp.OldShare # NilPtr /\ rp.Round = 2) /\ rp.Round # 1
    THEN GG20Out("error", ErrInvalidRound, rp, Nil)
    ELSE IF Len(messages) # Len(rp.Config.OldParties)
    THEN GG20Out("error",
                 Err("need shares from ALL old participants", Len(messages),
                     Len(rp.Config.OldParties)),
                 rp, Nil)
    ELSE LET loop == Round1AcceptLoop(rp, messages, 1)
         IN IF loop.status # "ok" THEN loop
            ELSE LET newShareValue == SumReceived(loop.rp.receivedShares,
                                                  DOMAIN loop.rp.receivedShares)
                 IN GG20Out("ok", NoErr,
                            [loop.rp EXCEPT
                                !.NewShare = DealerShare(rp.ID, newShareValue,
                                                         ScalarBaseMult(newShareValue)),
                                !.Round = IF rp.Round = 1 THEN 2 ELSE rp.Round],
                            Nil)

ReshareRound2Bcast(id, publicKey) == [ParticipantID |-> id, PublicKey |-> publicKey]

\* ReshareRound2 of the GG20 resharing: the participant's Paillier public key
GG20ReshareRound2(rp) ==
    IF rp.PaillierPubKey = Nil THEN GG20Out("error", ErrNilArguments, rp, Nil)
    ELSE IF rp.Round # 2 THEN GG20Out("error", ErrInvalidRound, rp, Nil)
    ELSE GG20Out("ok", NoErr, rp, ReshareRound2Bcast(rp.ID, rp.PaillierPubKey))

\* the loop of ReshareRound2Accept that stores the keys
RECURSIVE Round2AcceptLoop(_, _, _)
Round2AcceptLoop(rp, messages, k) ==
    IF k > Len(messages) THEN GG20Out("ok", NoErr, rp, Nil)
    ELSE LET msg == messages[k]
         IN IF msg.PublicKey = Nil
            THEN GG20Out("error", Err("nil Paillier key from participant", msg.ParticipantID, 0),
                         rp, Nil)
            ELSE Round2AcceptLoop([rp EXCEPT !.paillierKeys =
                                                 Put(@, msg.ParticipantID, msg.PublicKey)],
                                  messages, k + 1)

\* the first new party, in the order of NewParties, whose key is missing
RECURSIVE Round2Missing(_, _)
Round2Missing(rp, k) ==
    IF k > Len(rp.Config.NewParties) THEN 0
    ELSE LET id == rp.Config.NewParties[k]
         IN IF id \notin DOMAIN rp.paillierKeys /\ id # rp.ID THEN id
            ELSE Round2Missing(rp, k + 1)

\* a ReshareRound2Accept that does not look for missing keys
GG20ReshareRound2AcceptNoMissing(rp, messages) ==
    IF rp.Config = NilPtr THEN GG20Out("error", ErrNilArguments, rp, Nil)
    ELSE IF rp.Round # 2 THEN GG20Out("error", ErrInvalidRound, rp, Nil)
    ELSE LET loop == Round2AcceptLoop([rp EXCEPT !.paillierKeys = EmptyMap], messages, 1)
         IN IF loop.status # "ok" THEN loop
            ELSE GG20Out("ok", NoErr,
                         [loop.rp EXCEPT !.paillierKeys = Put(@, rp.ID, rp.PaillierPubKey),
                                         !.Round = 3],
                         Nil)

\* ReshareRound2Accept
GG20ReshareRound2Accept(rp, messages) ==
    IF rp.Config = NilPtr THEN GG20Out("error", ErrNilArguments, rp, Nil)
    ELSE IF rp.Round # 2 THEN GG20Out("error", ErrInvalidRound, rp, Nil)
    ELSE LET loop == Round2AcceptLoop([rp EXCEPT !.paillierKeys = EmptyMap], messages, 1)
         IN IF loop.status # "ok" THEN loop
            ELSE IF Round2Missing(loop.rp, 1) # 0
            THEN GG20Out("error",
                         Err("missing Paillier key from participant",
                             Round2Missing(loop.rp, 1), 0),
                         loop.rp, Nil)
            ELSE GG20Out("ok", NoErr,
                         [loop.rp EXCEPT !.paillierKeys = Put(@, rp.ID, rp.PaillierPubKey),
                                         !.Round = 3],
                         Nil)

\* a public share message; PublicShare is the point, Nil when the share or
\* its point is nil
ReshareRound3Bcast(id, publicShare) == [ParticipantID |-> id, PublicShare |-> publicShare]

\* ReshareRound3 of the GG20 resharing: the participant's public share point
GG20ReshareRound3(rp) ==
    IF rp.NewShare = NilPtr THEN GG20Out("error", ErrNilArguments, rp, Nil)
    ELSE IF rp.Round # 3 THEN GG20Out("error", ErrInvalidRound, rp, Nil)
    ELSE IF rp.NewShare.Point = Nil
    THEN GG20Out("error", Err("public share point not computed", 0, 0), rp, Nil)
    ELSE GG20Out("ok", NoErr, rp, ReshareRound3Bcast(rp.ID, rp.NewShare.Point))

\* the loop of ReshareRound3Accept that stores the public shares
RECURSIVE Round3AcceptLoop(_, _, _)
Round3AcceptLoop(rp, messages, k) ==
    IF k > Len(messages) THEN GG20Out("ok", NoErr, rp, Nil)
    ELSE LET msg == messages[k]
         IN IF msg.PublicShare = Nil
            THEN GG20Out("error", Err("nil public share from participant", msg.ParticipantID, 0),
                         rp, Nil)
            ELSE Round3AcceptLoop([rp EXCEPT !.publicShares =
                                                 Put(@, msg.ParticipantID, msg.PublicShare)],
                                  messages, k + 1)

\* ReshareRound3Accept; the shares are counted, not matched against NewParties
GG20ReshareRound3Accept(rp, messages) ==
    IF rp.Config = NilPtr THEN GG20Out("error", ErrNilArguments, rp, Nil)
    ELSE IF rp.Round # 3 THEN GG20Out("error", ErrInvalidRound, rp, Nil)
    ELSE LET loop == Round3AcceptLoop([rp EXCEPT !.publicShares = EmptyMap], messages, 1)
         IN IF loop.status # "ok" THEN loop
            ELSE IF rp.NewShare = NilPtr
            THEN GG20Out("panic", Err("nil pointer dereference", rp.ID, 0), loop.rp, Nil)
            ELSE LET own == [loop.rp EXCEPT !.publicShares = Put(@, rp.ID, rp.NewShare.Point)]
                 IN IF Cardinality(DOMAIN own.publicShares) # Len(rp.Config.NewParties)
                    THEN GG20Out("error",
                                 Err("missing public shares",
                                     Cardinality(DOMAIN own.publicShares),
                                     Len(rp.Config.NewParties)),
                                 own, Nil)
                    ELSE GG20Out("ok", NoErr, [own EXCEPT !.Round = 4], Nil)

\* GetReshareResult: the participant data in dealer format
GetReshareResult(rp) ==
    IF rp.Round # 4
    THEN GG20Out("error", Err("resharing not complete", 0, 0), rp, NilPtr)
    ELSE IF rp.NewShare = NilPtr
    THEN GG20Out("error", Err("no new share generated", 0, 0), rp, NilPtr)
    ELSE GG20Out("ok", NoErr, rp,
                 [isNil |-> FALSE, Id |-> rp.ID, DecryptKey |-> rp.PaillierKey,
                  SecretKeyShare |-> rp.NewShare, EcdsaPublicKey |-> rp.PublicKey,
                  PublicShares |-> rp.publicShares, EncryptKeys |-> rp.paillierKeys])

\* VerifyReshareResult: every participant's data carries the expected public
\* key, a secret share and a Paillier key; the shares are not looked into
VerifyReshareResult(participantData, expectedPublicKey) ==
    IF DOMAIN participantData = {} THEN Err("no participant data to verify", 0, 0)
    ELSE IF \E id \in DOMAIN participantData : participantData[id].EcdsaPublicKey = Nil
    THEN Err("participant has nil public key", 0, 0)
    ELSE IF \E id \in DOMAIN participantData :
                participantData[id].EcdsaPublicKey # expectedPublicKey
    THEN Err("participant has incorrect public key", 0, 0)
    ELSE IF \E id \in DOMAIN participantData : participantData[id].SecretKeyShare = NilPtr
    THEN Err("participant has nil secret share", 0, 0)
    ELSE IF \E id \in DOMAIN participantData : participantData[id].DecryptKey = NilPtr
    THEN Err("participant has nil Paillier key", 0, 0)
    ELSE NoErr

\* ------------------------------------------------------------------------
\* DkgParticipant.ResharingRound2
\* ------------------------------------------------------------------------
RR2Out(status, err, dp, bcast) == [status |-> status, err |-> err, dp |-> dp, bcast |-> bcast]

\* the structural checks that open ResharingRound2
RR2CheckInputs(dp, oldThreshold, bcast, p2psend) ==
    IF \/ dp.Threshold = 0
       \/ Cardinality(dp.otherParticipantShares) = 0
       \/ dp.Threshold > Cardinality(dp.otherParticipantShares) + 1
    THEN "invalid threshold"
    ELSE IF \/ Cardinality(DOMAIN bcast) # oldThreshold
            \/ Cardinality(DOMAIN p2psend) # oldThreshold
    THEN "invalid inputs"
    ELSE IF \E i \in DOMAIN bcast :
                \/ Len(bcast[i].As) # dp.Threshold - 1
                \/ Len(bcast[i].PHIs) # oldThreshold
    THEN "invalid broadcast data"
    ELSE "nil"

RECURSIVE RR2VerifyLoopKeepA0(_, _, _, _, _, _, _)
\* a loop that checks the sub-share against As as the sender broadcast it
RR2VerifyLoopKeepA0(dp, bcast, p2psend, S, k, phi0, Gj) ==
    IF k > Len(S)
    THEN [status |-> "ok", err |-> NoErr, bcast |-> bcast, phi0 |-> phi0, Gj |-> Gj]
    ELSE LET i == S[k]
             gj == ScalarSetBytes(p2psend[i].Value)
             phi == IF phi0 = Nil THEN bcast[i].PHIs[1] ELSE phi0
             v == EvalCommitmentPoly(bcast[i].As, ScalarNew(dp.Id))
         IN IF gj = Nil
            THEN [status |-> "error", err |-> Err("invalid scalar bytes", 0, 0),
                  bcast |-> bcast, phi0 |-> phi0, Gj |-> Gj]
            ELSE IF v # ScalarBaseMult(gj)
            THEN [status |-> "error", err |-> Err("invalid share", i, dp.Id),
                  bcast |-> bcast, phi0 |-> phi, Gj |-> Gj]
            ELSE RR2VerifyLoopKeepA0(dp, bcast, p2psend, S, k + 1, phi, Put(Gj, i, gj))

RECURSIVE RR2VerifyLoopNoCheck(_, _, _, _, _, _, _)
\* a loop that takes every sub-share that decodes
RR2VerifyLoopNoCheck(dp, bcast, p2psend, S, k, phi0, Gj) ==
    IF k > Len(S)
    THEN [status |-> "ok", err |-> NoErr, bcast |-> bcast, phi0 |-> phi0, Gj |-> Gj]
    ELSE LET i == S[k]
             gj == ScalarSetBytes(p2psend[i].Value)
             phi == IF phi0 = Nil THEN bcast[i].PHIs[1] ELSE phi0
             A0 == EvalCommitmentPoly(bcast[i].PHIs, ScalarNew(i))
             b2 == [bcast EXCEPT ![i].As[1] = A0]
         IN IF gj = Nil
            THEN [status |-> "error", err |-> Err("invalid scalar bytes", 0, 0),
                  bcast |-> bcast, phi0 |-> phi0, Gj |-> Gj]
            ELSE RR2VerifyLoopNoCheck(dp, b2, p2psend, S, k + 1, phi, Put(Gj, i, gj))

RECURSIVE RR2VerifyLoopWritesPHIs(_, _, _, _, _, _, _)
\* a loop that stores A0 in PHIs[0], the slice the sender's Commitments share
RR2VerifyLoopWritesPHIs(dp, bcast, p2psend, S, k, phi0, Gj) ==
    IF k > Len(S)
    THEN [status |-> "ok", err |-> NoErr, bcast |-> bcast, phi0 |-> phi0, Gj |-> Gj]
    ELSE LET i == S[k]
             gj == ScalarSetBytes(p2psend[i].Value)
             phi == IF phi0 = Nil THEN bcast[i].PHIs[1] ELSE phi0
             A0 == EvalCommitmentPoly(bcast[i].PHIs, ScalarNew(i))
             b2 == [bcast EXCEPT ![i].PHIs[1] = A0]
             v == EvalCommitmentPoly([bcast[i].As EXCEPT ![1] = A0], ScalarNew(dp.Id))
         IN IF gj = Nil
            THEN [status |-> "error", err |-> Err("invalid scalar bytes", 0, 0),
                  bcast |-> bcast, phi0 |-> phi0, Gj |-> Gj]
            ELSE IF v # ScalarBaseMult(gj)
            THEN [status |-> "error", err |-> Err("invalid share", i, dp.Id),
                  bcast |-> b2, phi0 |-> phi, Gj |-> Gj]
            ELSE RR2VerifyLoopWritesPHIs(dp, b2, p2psend, S, k + 1, phi, Put(Gj, i, gj))

RECURSIVE RR2VerifyLoop(_, _, _, _, _, _, _)
\* the loop over the senders S that decodes and verifies each sub-share;
\* k is the position in S, phi0 and Gj what the loop has collected so far,
\* bcast the broadcast map with the entries As[0] the loop has overwritten
RR2VerifyLoop(dp, bcast, p2psend, S, k, phi0, Gj) ==
    IF k > Len(S)
    THEN [status |-> "ok", err |-> NoErr, bcast |-> bcast, phi0 |-> phi0, Gj |-> Gj]
    ELSE LET i == S[k]
         IN IF i \notin DOMAIN p2psend
            THEN [status |-> "panic", err |-> Err("nil pointer dereference", i, dp.Id),
                  bcast |-> bcast, phi0 |-> phi0, Gj |-> Gj]
            ELSE IF ScalarSetBytes(p2psend[i].Value) = Nil
            THEN [status |-> "error", err |-> Err("invalid scalar bytes", 0, 0),
                  bcast |-> bcast, phi0 |-> phi0, Gj |-> Gj]
            ELSE IF Len(bcast[i].PHIs) = 0 \/ Len(bcast[i].As) = 0
            THEN [status |-> "panic", err |-> Err("index out of range", i, dp.Id),
                  bcast |-> bcast, phi0 |-> phi0, Gj |-> Gj]
            ELSE LET gj == ScalarSetBytes(p2psend[i].Value)
                     phi == IF phi0 = Nil THEN bcast[i].PHIs[1] ELSE phi0
                     A0 == EvalCommitmentPoly(bcast[i].PHIs, ScalarNew(i))
                     b2 == [bcast EXCEPT ![i].As[1] = A0]
                     v == EvalCommitmentPoly(b2[i].As, ScalarNew(dp.Id))
                 IN IF v # ScalarBaseMult(gj)
                    THEN [status |-> "error", err |-> Err("invalid share", i, dp.Id),
                          bcast |-> b2, phi0 |-> phi, Gj |-> Gj]
                    ELSE RR2VerifyLoop(dp, b2, p2psend, S, k + 1, phi, Put(Gj, i, gj))

\* Lagrange coefficients from a scheme that takes any non-empty sender list
RR2LagrangeCoeffsAnyCount(oldThreshold, S) ==
    IF Len(S) = 0 THEN [err |-> "invalid number of shares"]
    ELSE LagrangeCoeffs([err |-> "nil", threshold |-> 1, limit |-> Len(S)], S)

\* the Lagrange coefficients of the senders
RR2LagrangeCoeffs(oldThreshold, S) ==
    LET scheme == NewShamir(oldThreshold, Len(S))
    IN IF scheme.err # "nil" THEN [err |-> scheme.err] ELSE LagrangeCoeffs(scheme, S)

\* the new secret share: sum over S of lCoeffs[i] * Gj[i]
RR2SkShare(lCoeffs, Gj, S) ==
    SumScalars([i \in Range(S) |-> ScalarMul(lCoeffs[i], Gj[i])], Range(S))

\* new commitments summed without the Lagrange coefficients
RR2CommitmentsPlainSum(dp, bcast, lCoeffs, S, phi0) ==
    <<phi0>> \o
    [k \in 1..(dp.Threshold - 1) |->
        SumPoints([i \in Range(S) |-> bcast[i].As[k + 1]], Range(S))]

\* the new commitments: phi0, then for k >= 1 the sum over S of As_i[k] * lCoeffs[i]
RR2Commitments(dp, bcast, lCoeffs, S, phi0) ==
    <<phi0>> \o
    [k \in 1..(dp.Threshold - 1) |->
        SumPoints([i \in Range(S) |-> PointMul(bcast[i].As[k + 1], lCoeffs[i])], Range(S))]

\* a write-back that takes the key from the last commitment
RR2WriteBackLastKey(dp, skShare, commitments, setVkShare) ==
    [dp EXCEPT !.Commitments = commitments,
               !.SkShare = skShare,
               !.VerificationKey = commitments[Len(commitments)],
               !.VkShare = IF setVkShare THEN ScalarBaseMult(skShare) ELSE dp.VkShare]

\* a write-back that stores the public share where the secret share belongs
RR2WriteBackVkAsSk(dp, skShare, commitments, setVkShare) ==
    [dp EXCEPT !.Commitments = commitments,
               !.SkShare = ScalarBaseMult(skShare),
               !.VerificationKey = commitments[1],
               !.VkShare = IF setVkShare THEN ScalarBaseMult(skShare) ELSE dp.VkShare]

\* what a successful ResharingRound2 writes into the participant
RR2WriteBack(dp, skShare, commitments, setVkShare) ==
    [dp EXCEPT !.Commitments = commitments,
               !.SkShare = skShare,
               !.VerificationKey = commitments[1],
               !.VkShare = IF setVkShare THEN ScalarBaseMult(skShare) ELSE dp.VkShare]

\* a ResharingRound2 that stores the first sender's PHIs as Commitments
\* before it has verified the sub-shares
RR2BodyEagerWrite(dp, oldThreshold, bcast, p2psend, S, setVkShare) ==
    LET loop == RR2VerifyLoop(dp, bcast, p2psend, S, 1, Nil, EmptyMap)
    IN IF loop.status # "ok"
       THEN RR2Out(loop.status, loop.err,
                   IF loop.phi0 = Nil THEN dp
                   ELSE [dp EXCEPT !.VerificationKey = loop.phi0,
                                   !.Commitments = <<loop.phi0>>],
                   loop.bcast)
       ELSE LET l == RR2LagrangeCoeffs(oldThreshold, S)
            IN IF l.err # "nil" THEN RR2Out("error", Err(l.err, 0, 0), dp, loop.bcast)
               ELSE IF \E i \in Range(S) : Len(loop.bcast[i].As) < dp.Threshold
               THEN RR2Out("panic", Err("index out of range", 0, dp.Id), dp, loop.bcast)
               ELSE LET skShare == RR2SkShare(l.coeffs, loop.Gj, S)
                        commitments == RR2Commitments(dp, loop.bcast, l.coeffs, S, loop.phi0)
                    IN IF EvalCommitmentPoly(commitments, ScalarNew(dp.Id)) # ScalarBaseMult(skShare)
                       THEN RR2Out("panic", Err("invalid share", 0, dp.Id), dp, loop.bcast)
                       ELSE RR2Out("ok", NoErr,
                                   RR2WriteBack(dp, skShare, commitments, setVkShare),
                                   loop.bcast)

\* ResharingRound2 from the verification loop on
RR2Body(dp, oldThreshold, bcast, p2psend, S, setVkShare) ==
    LET loop == RR2VerifyLoop(dp, bcast, p2psend, S, 1, Nil, EmptyMap)
    IN IF loop.status # "ok" THEN RR2Out(loop.status, loop.err, dp, loop.bcast)
       ELSE LET l == RR2LagrangeCoeffs(oldThreshold, S)
            IN IF l.err # "nil" THEN RR2Out("error", Err(l.err, 0, 0), dp, loop.bcast)
               ELSE IF \E i \in Range(S) : Len(loop.bcast[i].As) < dp.Threshold
               THEN RR2Out("panic", Err("index out of range", 0, dp.Id), dp, loop.bcast)
               ELSE LET skShare == RR2SkShare(l.coeffs, loop.Gj, S)
                        commitments == RR2Commitments(dp, loop.bcast, l.coeffs, S, loop.phi0)
                    IN IF EvalCommitmentPoly(commitments, ScalarNew(dp.Id)) # ScalarBaseMult(skShare)
                       THEN RR2Out("panic", Err("invalid share", 0, dp.Id), dp, loop.bcast)
                       ELSE RR2Out("ok", NoErr,
                                   RR2WriteBack(dp, skShare, commitments, setVkShare),
                                   loop.bcast)

\* ResharingRound2 as the file defines it first (with the structural checks);
\* S is the order in which the range loop visits the keys of bcast
ResharingRound2(dp, oldThreshold, bcast, p2psend, S) ==
    IF RR2CheckInputs(dp, oldThreshold, bcast, p2psend) # "nil"
    THEN RR2Out("error", Err(RR2CheckInputs(dp, oldThreshold, bcast, p2psend), 0, 0), dp, bcast)
    ELSE RR2Body(dp, oldThreshold, bcast, p2psend, S, TRUE)

\* ResharingRound2 as the file defines it second (no structural checks,
\* VkShare not written)
ResharingRound2Unchecked(dp, oldThreshold, bcast, p2psend, S) ==
    RR2Body(dp, oldThreshold, bcast, p2psend, S, FALSE)

\* ------------------------------------------------------------------------
\* The protocol run: a DKG among DkgIDs, then a resharing to a new committee
\* ------------------------------------------------------------------------
VARIABLES
    participants,      \* old committee: id -> DkgParticipant
    newParticipants,   \* new committee: id -> DkgParticipant
    r,                 \* the Resharing coordinator
    rnd1Bcast,         \* DKG round 1 broadcasts: sender -> commitments
    rnd1P2p,           \* DKG round 1 shares: sender -> recipient -> share
    bcastRnd1Out,      \* resharing round 1 broadcasts: sender -> ResharingBcast
    p2pRnd1Out,        \* resharing round 1 sub-shares: sender -> recipient -> share
    dealt,             \* history: the secret each DKG participant dealt
    bcastSent,         \* history: the broadcast each sender produced
    tampered,          \* history: what an adversary changed in flight
    ret,               \* what the last call returned
    crashed,           \* a Go panic has ended the process
    feldman,           \* a Feldman scheme used on its own
    split,             \* what its last Split returned
    verified,          \* the share last handed to Verify and the verdict
    poly,              \* history: the polynomial the last Split built
    call,              \* the last call of a function on its own: name, arguments, result
    sample,            \* a call of SampleUniqueUint32s: arguments, loop state, result
    rps,               \* GG20 resharing: id -> ReshareParticipant
    round1Messages,    \* GG20 resharing: sender -> recipient -> ReshareRound1Bcast
    round2Messages,    \* GG20 resharing: sender -> ReshareRound2Bcast
    round3Messages,    \* GG20 resharing: sender -> ReshareRound3Bcast
    dealerShares,      \* history: the key the trusted dealer shared among the old parties
    gg20ret            \* what the last GG20 resharing call returned

protocolVars == <<participants, newParticipants, r, rnd1Bcast, rnd1P2p,
                  bcastRnd1Out, p2pRnd1Out, dealt, bcastSent, tampered, ret, crashed>>
feldmanVars == <<feldman, split, verified, poly, call>>
gg20Vars == <<rps, round1Messages, round2Messages, round3Messages, dealerShares, gg20ret>>
otherVars == <<sample, gg20Vars>>
vars == <<protocolVars, feldmanVars, otherVars>>

\* no sampler call and no GG20 resharing beside the run
NoOther ==
    /\ sample = [pc |-> "idle"]
    /\ rps = <<>>
    /\ round1Messages = <<>>
    /\ round2Messages = <<>>
    /\ round3Messages = <<>>
    /\ dealerShares = <<>>
    /\ gg20ret = GG20RetInit

\* no stand-alone Feldman scheme in the protocol runs
NoFeldman ==
    /\ feldman = [err |-> "invalid curve"]
    /\ split = [err |-> "invalid secret", verifier |-> <<>>, shares |-> EmptyMap]
    /\ verified = <<>>
    /\ poly = <<>>
    /\ call = [op |-> "none"]

DkgIDs == {1, 2, 3}
DkgThreshold == 2

\* a nil *Resharing
NilResharing == [err |-> ErrNilArguments]

Ret(op, id, err) == [op |-> op, id |-> id, err |-> err]

FreshParticipants(ids, threshold) ==
    [id \in ids |-> NewDkgParticipant(id, threshold, Curve, SetToSeq(ids \ {id})).dp]

Init ==
    /\ participants = FreshParticipants(DkgIDs, DkgThreshold)
    /\ newParticipants = EmptyMap
    /\ r = NilResharing
    /\ rnd1Bcast = EmptyMap
    /\ rnd1P2p = EmptyMap
    /\ bcastRnd1Out = EmptyMap
    /\ p2pRnd1Out = EmptyMap
    /\ dealt = EmptyMap
    /\ bcastSent = EmptyMap
    /\ tampered = {}
    /\ ret = Ret("init", 0, NoErr)
    /\ crashed = FALSE
    /\ NoFeldman
    /\ NoOther

\* a participant of the DKG calls Round1
DkgRound1(id) ==
    /\ ~crashed
    /\ \E secret \in 1..MaxSecret, rnd \in [1..(DkgThreshold - 1) -> 0..MaxRand] :
       \E out \in {Round1(participants[id], secret, rnd)} :
           /\ participants' = [participants EXCEPT ![id] = out.dp]
           /\ rnd1Bcast' = IF out.err = NoErr THEN Put(rnd1Bcast, id, out.bcast) ELSE rnd1Bcast
           /\ rnd1P2p' = IF out.err = NoErr THEN Put(rnd1P2p, id, out.p2psend) ELSE rnd1P2p
           /\ dealt' = IF out.err = NoErr THEN Put(dealt, id, secret) ELSE dealt
           /\ ret' = Ret("Round1", id, out.err)
    /\ UNCHANGED <<newParticipants, r, bcastRnd1Out, p2pRnd1Out, bcastSent, tampered, crashed>>
    /\ UNCHANGED <<feldmanVars, otherVars>>

\* the DKG shares addressed to participant id
DkgP2pFor(id) == [j \in (DOMAIN rnd1P2p) \ {id} |-> rnd1P2p[j][id]]

\* a participant of the DKG calls Round2 on what it has received so far
DkgRound2(id) ==
    /\ ~crashed
    /\ \E out \in {Round2(participants[id], rnd1Bcast, DkgP2pFor(id))} :
           /\ participants' = [participants EXCEPT ![id] = out.dp]
           /\ ret' = Ret("Round2", id, out.err)
    /\ UNCHANGED <<newParticipants, r, rnd1Bcast, rnd1P2p, bcastRnd1Out, p2pRnd1Out,
                   dealt, bcastSent, tampered, crashed>>
    /\ UNCHANGED <<feldmanVars, otherVars>>

Next ==
    \/ \E id \in DkgIDs : DkgRound1(id)
    \/ \E id \in DkgIDs : DkgRound2(id)

Spec == Init /\ [][Next]_vars

\* ------------------------------------------------------------------------
\* The resharing, started from the state a completed DKG leaves
\* ------------------------------------------------------------------------
\* the participants after a DKG in which id dealt secrets[id] with coefficients rnds[id]
DkgRun(secrets, rnds) ==
    LET fresh == FreshParticipants(DkgIDs, DkgThreshold)
        r1 == [id \in DkgIDs |-> Round1(fresh[id], secrets[id], rnds[id])]
    IN [id \in DkgIDs |->
           Round2(r1[id].dp,
                  [j \in DkgIDs |-> r1[j].bcast],
                  [j \in DkgIDs \ {id} |-> r1[j].p2psend[id]]).dp]

\* the resharing set-ups the model explores: new threshold, senders S, new committee
ResharingConfigs ==
    { [t |-> 2, S |-> <<1, 2, 3>>, Sn |-> <<4, 5>>],
      [t |-> 3, S |-> <<1, 2>>, Sn |-> <<1, 2, 3>>],
      [t |-> 2, S |-> <<3, 2>>, Sn |-> <<4, 5, 6>>],
      [t |-> 2, S |-> <<3>>, Sn |-> <<1, 2>>] }

InitReshare ==
    /\ \E secrets \in [DkgIDs -> 1..MaxSecret],
          rnd \in [1..(DkgThreshold - 1) -> 0..MaxRand] :
           /\ participants = DkgRun(secrets, [id \in DkgIDs |-> rnd])
           /\ dealt = secrets
    /\ \E cfg \in ResharingConfigs :
           /\ r = NewResharing(cfg.t, Curve, cfg.S, cfg.Sn)
           /\ newParticipants = FreshParticipants(Range(cfg.Sn), cfg.t)
    /\ rnd1Bcast = EmptyMap
    /\ rnd1P2p = EmptyMap
    /\ bcastRnd1Out = EmptyMap
    /\ p2pRnd1Out = EmptyMap
    /\ bcastSent = EmptyMap
    /\ tampered = {}
    /\ ret = Ret("init", 0, NoErr)
    /\ crashed = FALSE
    /\ NoFeldman
    /\ NoOther

\* an old participant calls ResharingRound1, once
ReshareRound1(i) ==
    /\ ~crashed
    /\ i \notin DOMAIN bcastRnd1Out
    /\ \E rnd \in [1..(r.Threshold - 1) -> 0..MaxRand] :
       \E out \in {ResharingRound1(r, participants[i], rnd)} :
           /\ bcastRnd1Out' = IF out.err = NoErr THEN Put(bcastRnd1Out, i, out.bcast)
                              ELSE bcastRnd1Out
           /\ p2pRnd1Out' = IF out.err = NoErr THEN Put(p2pRnd1Out, i, out.p2psend)
                            ELSE p2pRnd1Out
           /\ bcastSent' = IF out.err = NoErr THEN Put(bcastSent, i, out.bcast) ELSE bcastSent
           /\ ret' = Ret("ResharingRound1", i, out.err)
    /\ UNCHANGED <<participants, newParticipants, r, rnd1Bcast, rnd1P2p, dealt, tampered,
                   crashed>>
    /\ UNCHANGED <<feldmanVars, otherVars>>

\* an old participant calls the ResharingRound1 of DkgParticipant, once
ReshareRound1OfParticipant(i) ==
    /\ ~crashed
    /\ i \notin DOMAIN bcastRnd1Out
    /\ \E rnd \in [1..(r.Threshold - 1) -> 0..MaxRand] :
       \E out \in {DkgResharingRound1(participants[i], r.Threshold, r.NewParticipantIDs, rnd)} :
           /\ bcastRnd1Out' = IF out.err = NoErr THEN Put(bcastRnd1Out, i, out.bcast)
                              ELSE bcastRnd1Out
           /\ p2pRnd1Out' = IF out.err = NoErr THEN Put(p2pRnd1Out, i, out.p2psend)
                            ELSE p2pRnd1Out
           /\ bcastSent' = IF out.err = NoErr THEN Put(bcastSent, i, out.bcast) ELSE bcastSent
           /\ ret' = Ret("DkgParticipant.ResharingRound1", i, out.err)
           /\ crashed' = (out.status = "panic")
    /\ UNCHANGED <<participants, newParticipants, r, rnd1Bcast, rnd1P2p, dealt, tampered>>
    /\ UNCHANGED <<feldmanVars, otherVars>>

\* the sub-shares addressed to new participant j
P2pFor(j) == [i \in DOMAIN p2pRnd1Out |-> p2pRnd1Out[i][j]]

\* the old participants once a call has left the broadcast map as bcast: the
\* PHIs of a broadcast that was not replaced in flight is the slice that the
\* sender's Commitments field holds, so a write to one shows in the other
SharedCommitments(bcast) ==
    [i \in DOMAIN participants |->
        IF i \in DOMAIN bcast /\ i \notin {t.i : t \in tampered}
        THEN [participants[i] EXCEPT !.Commitments = bcast[i].PHIs]
        ELSE participants[i]]

\* what a call of ResharingRound2 with outcome result does to the state
ApplyRR2(op, j, result) ==
    \E out \in {result} :
        /\ newParticipants' = [newParticipants EXCEPT ![j] = out.dp]
        /\ bcastRnd1Out' = out.bcast
        /\ participants' = SharedCommitments(out.bcast)
        /\ ret' = Ret(op, j, out.err)
        /\ crashed' = (out.status = "panic")
        /\ UNCHANGED <<r, rnd1Bcast, rnd1P2p, p2pRnd1Out, dealt, bcastSent, tampered>>
        /\ UNCHANGED <<feldmanVars, otherVars>>

\* all senders have dealt: the caller hands the maps to new participant j
RR2Ready(j) ==
    /\ ~crashed
    /\ DOMAIN bcastRnd1Out = Range(r.ResharingParticipantIDs)
    /\ newParticipants[j].SkShare = Nil

ReshareRound2(j) ==
    /\ RR2Ready(j)
    /\ \E S \in Orders(DOMAIN bcastRnd1Out) :
           ApplyRR2("ResharingRound2", j,
                    ResharingRound2(newParticipants[j], DkgThreshold, bcastRnd1Out, P2pFor(j), S))

ReshareRound2Unchecked(j) ==
    /\ RR2Ready(j)
    /\ \E S \in Orders(DOMAIN bcastRnd1Out) :
           ApplyRR2("ResharingRound2Unchecked", j,
                    ResharingRound2Unchecked(newParticipants[j], DkgThreshold, bcastRnd1Out,
                                             P2pFor(j), S))

NextReshare ==
    \/ \E i \in DkgIDs : ReshareRound1(i)
    \/ \E j \in DOMAIN newParticipants : ReshareRound2(j)
    \/ \E j \in DOMAIN newParticipants : ReshareRound2Unchecked(j)

SpecReshare == InitReshare /\ [][NextReshare]_vars

\* round 1 of the resharing alone, by either of its two implementations
NextRound1 ==
    \/ \E i \in DkgIDs : ReshareRound1(i)
    \/ \E i \in Range(r.ResharingParticipantIDs) : ReshareRound1OfParticipant(i)

SpecRound1 == InitReshare /\ [][NextRound1]_vars

\* ------------------------------------------------------------------------
\* ResharingRound2 on the maps a caller may pass: any part of the broadcast
\* map, any part of the sub-share map, an oldThreshold up to the one of the
\* old committee, and possibly one
\* sub-share that does not decode or is not the one sent.  The run ends at
\* the first call that returns an error or panics.
\* ------------------------------------------------------------------------
InputConfigs ==
    { [t |-> 2, S |-> <<1, 2>>, Sn |-> <<3, 4>>, tn |-> 2],
      [t |-> 2, S |-> <<1, 2, 3>>, Sn |-> <<4, 5, 6>>, tn |-> 3] }

InitInputs ==
    /\ \E secret \in 1..MaxSecret, rnd \in [1..(DkgThreshold - 1) -> 0..MaxRand] :
           /\ participants = DkgRun([id \in DkgIDs |-> secret], [id \in DkgIDs |-> rnd])
           /\ dealt = [id \in DkgIDs |-> secret]
    /\ \E cfg \in InputConfigs :
           /\ r = NewResharing(cfg.t, Curve, cfg.S, cfg.Sn)
           /\ newParticipants = FreshParticipants(Range(cfg.Sn), cfg.tn)
    /\ rnd1Bcast = EmptyMap
    /\ rnd1P2p = EmptyMap
    /\ bcastRnd1Out = EmptyMap
    /\ p2pRnd1Out = EmptyMap
    /\ bcastSent = EmptyMap
    /\ tampered = {}
    /\ ret = Ret("init", 0, NoErr)
    /\ crashed = FALSE
    /\ NoFeldman
    /\ NoOther

\* the sub-share kinds a caller may pass for the first sender of p2psend
SubShareKinds == {"sent", "undecodable", "wrong"}

\* bytes that are no scalar
UndecodableBytes == [k \in 1..ScalarLen |-> ByteBase - 1]

\* the p2psend map of new participant j with the senders P, the sub-share
\* of the least sender being of the given kind
P2pInput(j, P, kind) ==
    [i \in P |->
        IF kind = "sent" \/ \E k \in P : k < i THEN p2pRnd1Out[i][j]
        ELSE IF kind = "undecodable"
        THEN [p2pRnd1Out[i][j] EXCEPT !.Value = UndecodableBytes]
        ELSE [p2pRnd1Out[i][j] EXCEPT
                 !.Value = ScalarBytes(ScalarAdd(ScalarSetBytes(@), ScalarOne))]]

\* the bcast map with the senders B: its entries point to the broadcasts
BcastInput(B) == [i \in B |-> bcastRnd1Out[i]]

InputReady(j) ==
    /\ ~crashed
    /\ ret.err = NoErr
    /\ DOMAIN bcastRnd1Out = Range(r.ResharingParticipantIDs)
    /\ j \in DOMAIN newParticipants

\* what a call on the maps with senders B and P does to the state
ApplyInput(op, j, B, P, oldThreshold, kind, result) ==
    \E out \in {result} :
        /\ newParticipants' = [newParticipants EXCEPT ![j] = out.dp]
        /\ bcastRnd1Out' = [i \in DOMAIN bcastRnd1Out |->
                               IF i \in B THEN out.bcast[i] ELSE bcastRnd1Out[i]]
        /\ participants' = SharedCommitments(out.bcast)
        /\ ret' = Ret(op, j, out.err)
        /\ crashed' = (out.status = "panic")
        /\ call' = [op |-> op, id |-> j, bcast |-> B, p2psend |-> P,
                    oldThreshold |-> oldThreshold, kind |-> kind, status |-> out.status]
        /\ UNCHANGED <<r, rnd1Bcast, rnd1P2p, p2pRnd1Out, dealt, bcastSent, tampered>>
        /\ UNCHANGED <<feldman, split, verified, poly, otherVars>>

InputRound2(j) ==
    /\ InputReady(j)
    /\ \E B \in SUBSET DOMAIN bcastRnd1Out, P \in SUBSET DOMAIN p2pRnd1Out,
          oldThreshold \in 1..DkgThreshold, kind \in SubShareKinds :
       \E S \in Orders(B) :
           /\ kind # "sent" => P # {}
           /\ ApplyInput("ResharingRound2", j, B, P, oldThreshold, kind,
                         ResharingRound2(newParticipants[j], oldThreshold, BcastInput(B),
                                         P2pInput(j, P, kind), S))

InputRound2Unchecked(j) ==
    /\ InputReady(j)
    /\ \E B \in SUBSET DOMAIN bcastRnd1Out, P \in SUBSET DOMAIN p2pRnd1Out,
          oldThreshold \in 1..DkgThreshold, kind \in SubShareKinds :
       \E S \in Orders(B) :
           /\ kind # "sent" => P # {}
           /\ ApplyInput("ResharingRound2Unchecked", j, B, P, oldThreshold, kind,
                         ResharingRound2Unchecked(newParticipants[j], oldThreshold,
                                                  BcastInput(B), P2pInput(j, P, kind), S))

NextInputs ==
    \/ \E i \in Range(r.ResharingParticipantIDs) : ReshareRound1(i)
    \/ \E j \in DOMAIN newParticipants : InputRound2(j)
    \/ \E j \in DOMAIN newParticipants : InputRound2Unchecked(j)

SpecInputs == InitInputs /\ [][NextInputs]_vars

\* ------------------------------------------------------------------------
\* The resharing with an adversary that changes one message in flight.
\* The new participants run the second definition of ResharingRound2: the
\* first one returns "invalid broadcast data" for every broadcast whose As has
\* Threshold entries, so it never gets to the sub-share loop on these inputs.
\* ------------------------------------------------------------------------
ByzConfigs ==
    { [t |-> 2, S |-> <<1, 2>>, Sn |-> <<3, 4>>],
      [t |-> 2, S |-> <<1, 2, 3>>, Sn |-> <<4, 5>>] }

InitByz ==
    /\ \E secret \in 1..MaxSecret, rnd \in [1..(DkgThreshold - 1) -> 0..MaxRand] :
           /\ participants = DkgRun([id \in DkgIDs |-> secret], [id \in DkgIDs |-> rnd])
           /\ dealt = [id \in DkgIDs |-> secret]
    /\ \E cfg \in ByzConfigs :
           /\ r = NewResharing(cfg.t, Curve, cfg.S, cfg.Sn)
           /\ newParticipants = FreshParticipants(Range(cfg.Sn), cfg.t)
    /\ rnd1Bcast = EmptyMap
    /\ rnd1P2p = EmptyMap
    /\ bcastRnd1Out = EmptyMap
    /\ p2pRnd1Out = EmptyMap
    /\ bcastSent = EmptyMap
    /\ tampered = {}
    /\ ret = Ret("init", 0, NoErr)
    /\ crashed = FALSE
    /\ NoFeldman
    /\ NoOther

\* the adversary acts once, between the two rounds
CanTamper(i) ==
    /\ ~crashed
    /\ tampered = {}
    /\ i \in DOMAIN bcastRnd1Out
    /\ DOMAIN bcastRnd1Out = Range(r.ResharingParticipantIDs)
    /\ \A j \in DOMAIN newParticipants : newParticipants[j].SkShare = Nil

Tampered(kind, i) ==
    /\ tampered' = {[kind |-> kind, i |-> i]}
    /\ ret' = Ret("Tamper", i, NoErr)
    /\ UNCHANGED <<participants, newParticipants, r, rnd1Bcast, rnd1P2p, dealt, bcastSent,
                   crashed>>
    /\ UNCHANGED <<feldmanVars, otherVars>>

\* sender i's broadcast arrives with another As[0]
TamperA0(i) ==
    /\ CanTamper(i)
    /\ \E p \in Points \ {bcastRnd1Out[i].As[1]} :
           bcastRnd1Out' = [bcastRnd1Out EXCEPT ![i].As[1] = p]
    /\ UNCHANGED p2pRnd1Out
    /\ Tampered("A0", i)

\* sender i's sub-share for j arrives with other bytes, a scalar or not
TamperShare(i, j) ==
    /\ CanTamper(i)
    /\ \E b \in [1..ScalarLen -> 0..(ByteBase - 1)] \ {p2pRnd1Out[i][j].Value} :
           p2pRnd1Out' = [p2pRnd1Out EXCEPT ![i][j].Value = b]
    /\ UNCHANGED bcastRnd1Out
    /\ Tampered("share", i)

\* sender i's broadcast arrives with the commitments of another polynomial as PHIs
TamperPHIs(i) ==
    /\ CanTamper(i)
    /\ \E secret \in 0..MaxSecret, rnd \in [1..(DkgThreshold - 1) -> 0..MaxRand] :
           /\ bcastRnd1Out' =
                  [bcastRnd1Out EXCEPT ![i].PHIs =
                      [k \in 1..DkgThreshold |->
                          ScalarBaseMult(PolynomialInit(secret, rnd)[k])]]
           /\ bcastRnd1Out' # bcastRnd1Out
    /\ UNCHANGED p2pRnd1Out
    /\ Tampered("PHIs", i)

NextByz ==
    \/ \E i \in DkgIDs : ReshareRound1(i)
    \/ \E i \in DkgIDs : TamperA0(i)
    \/ \E i \in DkgIDs : \E j \in DOMAIN newParticipants : TamperShare(i, j)
    \/ \E i \in DkgIDs : TamperPHIs(i)
    \/ \E j \in DOMAIN newParticipants : ReshareRound2Unchecked(j)

SpecByz == InitByz /\ [][NextByz]_vars

\* ------------------------------------------------------------------------
\* A Feldman scheme on its own: Split, then Verify of the shares it returned
\* ------------------------------------------------------------------------
MaxLimit == 3
MaxId == Q - 1

\* the identifier lists a scheme of n shares is built with: none, or n of 1..MaxId
IDLists(n) == {<<>>} \cup {SetToSeq(T) : T \in {U \in SUBSET (1..MaxId) : Cardinality(U) = n}}

\* no protocol run beside the scheme
NoProtocol ==
    /\ participants = EmptyMap
    /\ newParticipants = EmptyMap
    /\ r = NilResharing
    /\ rnd1Bcast = EmptyMap
    /\ rnd1P2p = EmptyMap
    /\ bcastRnd1Out = EmptyMap
    /\ p2pRnd1Out = EmptyMap
    /\ dealt = EmptyMap
    /\ bcastSent = EmptyMap
    /\ tampered = {}
    /\ ret = Ret("init", 0, NoErr)
    /\ crashed = FALSE

InitFeldman ==
    /\ \E t \in 2..MaxLimit : \E n \in t..MaxLimit : \E ids \in IDLists(n) :
           feldman = NewFeldman(t, n, Curve, ids)
    /\ split = [err |-> "invalid secret", verifier |-> <<>>, shares |-> EmptyMap]
    /\ verified = <<>>
    /\ poly = <<>>
    /\ call = [op |-> "none"]
    /\ NoProtocol
    /\ NoOther

\* Split of a secret, zero or not
Split ==
    /\ \E secret \in 0..MaxSecret, rnd \in [1..(feldman.Threshold - 1) -> 0..MaxRand] :
           /\ split' = FeldmanSplit(feldman, secret, rnd)
           /\ poly' = IF secret = 0 THEN <<>> ELSE PolynomialInit(secret, rnd)
    /\ verified' = <<>>
    /\ call' = [op |-> "Split", secret |-> IF poly' = <<>> THEN 0 ELSE poly'[1]]
    /\ UNCHANGED <<feldman, protocolVars, otherVars>>

\* Verify, by the verifier Split returned, of one of the shares it returned
Verify(id) ==
    /\ split.err = "nil"
    /\ id \in DOMAIN split.shares
    /\ verified' = <<id, FeldmanVerify(split.verifier, split.shares[id])>>
    /\ call' = [op |-> "Verify"]
    /\ UNCHANGED <<feldman, split, poly, protocolVars, otherVars>>

NextFeldman ==
    \/ Split
    \/ \E id \in 1..MaxId : Verify(id)

SpecFeldman == InitFeldman /\ [][NextFeldman]_vars

\* ------------------------------------------------------------------------
\* Reconstruction: Split, then Combine of any list of the shares returned,
\* of copies of them with the identifier 0, and of repetitions
\* ------------------------------------------------------------------------
\* a scheme of n shares takes the identifiers 1..n or the n largest ones, descending
CombineIDLists(n) == {<<>>, [k \in 1..n |-> MaxId + 1 - k]}

InitCombine ==
    /\ \E t \in 2..MaxLimit : \E n \in t..MaxLimit : \E ids \in CombineIDLists(n) :
           feldman = NewFeldman(t, n, Curve, ids)
    /\ split = [err |-> "invalid secret", verifier |-> <<>>, shares |-> EmptyMap]
    /\ verified = <<>>
    /\ poly = <<>>
    /\ call = [op |-> "none"]
    /\ NoProtocol
    /\ NoOther

\* the shares a caller may hand to Combine
SharePool == Range(split.shares) \cup {ShamirShare(0, sh.Value) : sh \in Range(split.shares)}

RECURSIVE Lists(_, _)
\* the lists of at most n elements of S
Lists(S, n) ==
    IF n = 0 THEN {<<>>}
    ELSE Lists(S, n - 1) \cup {Append(l, x) : l \in {m \in Lists(S, n - 1) : Len(m) = n - 1}, x \in S}

\* Split in a reconstruction run.  Split and Combine keep no state of their
\* own, so a call made after a Combine reaches nothing that the same call made
\* before it does not reach: the run ends with its Combine.
SplitToCombine ==
    /\ call.op # "Combine"
    /\ Split

Combine ==
    /\ call.op = "Split"
    /\ split.err = "nil"
    /\ \E shares \in Lists(SharePool, feldman.Threshold) :
           call' = [op |-> "Combine", shares |-> shares, out |-> FeldmanCombine(feldman, shares)]
    /\ UNCHANGED <<feldman, split, verified, poly, protocolVars, otherVars>>

\* Feldman.LagrangeCoeffs on some of the shares the Split returned
LagrangeCoeffsOfShares ==
    /\ call.op = "Split"
    /\ split.err = "nil"
    /\ \E T \in SUBSET (DOMAIN split.shares) :
           call' = [op |-> "LagrangeCoeffs", ids |-> T,
                    out |-> FeldmanLagrangeCoeffs(feldman, [id \in T |-> split.shares[id]])]
    /\ UNCHANGED <<feldman, split, verified, poly, protocolVars, otherVars>>

\* the identifier lists of the parties of a resharing: distinct and not 0
PartyIDLists == {l \in Lists(1..MaxId, MaxLimit) : l # <<>> /\ NoDup(l)}

\* calculateLagrangeCoefficient for every party of a list, modulo the group order
CalculateLagrange ==
    /\ call.op = "none"
    /\ \E allPartyIDs \in PartyIDLists :
           call' = [op |-> "calculateLagrangeCoefficient", ids |-> allPartyIDs,
                    out |-> [k \in DOMAIN allPartyIDs |->
                               calculateLagrangeCoefficient(allPartyIDs[k], allPartyIDs, Q)]]
    /\ UNCHANGED <<feldman, split, verified, poly, protocolVars, otherVars>>

NextCombine ==
    \/ SplitToCombine
    \/ Combine
    \/ LagrangeCoeffsOfShares
    \/ CalculateLagrange

SpecCombine == InitCombine /\ [][NextCombine]_vars

\* ------------------------------------------------------------------------
\* Verification: Split, then Verify of any well-formed share
\* ------------------------------------------------------------------------
\* the well-formed shares: an identifier that is not 0 and an encoded scalar
WellFormedShares == {ShamirShare(id, ScalarBytes(v)) : id \in 1..MaxId, v \in Scalars}

\* Split in a verification run, which ends with its Verify (Verify keeps no state)
SplitToVerify ==
    /\ call.op \notin {"VerifyShare", "EvalCommitmentPoly"}
    /\ Split

VerifyShare ==
    /\ call.op = "Split"
    /\ split.err = "nil"
    /\ \E share \in WellFormedShares :
           call' = [op |-> "VerifyShare", share |-> share,
                    out |-> FeldmanVerify(split.verifier, share)]
    /\ UNCHANGED <<feldman, split, verified, poly, protocolVars, otherVars>>

\* EvalCommitmentPoly of the commitments the Split returned, at any scalar
EvalCommitments ==
    /\ call.op = "Split"
    /\ split.err = "nil"
    /\ \E x \in Scalars :
           call' = [op |-> "EvalCommitmentPoly", x |-> x,
                    out |-> EvalCommitmentPoly(split.verifier, x)]
    /\ UNCHANGED <<feldman, split, verified, poly, protocolVars, otherVars>>

NextVerify ==
    \/ SplitToVerify
    \/ VerifyShare
    \/ EvalCommitments

SpecVerify == InitFeldman /\ [][NextVerify]_vars

\* ------------------------------------------------------------------------
\* Construction of a Feldman scheme from arbitrary arguments
\* ------------------------------------------------------------------------
\* the largest number of shares a scheme may have
MaxShares == 255

InitConstruct ==
    /\ NoFeldman
    /\ NoOther
    /\ NoProtocol

\* NewFeldman, called once on arguments of any kind
Construct ==
    /\ call.op = "none"
    /\ \E t \in 0..(MaxLimit + 1), n \in (0..(MaxLimit + 1)) \cup {MaxShares, MaxShares + 1},
          curve \in {Curve, NilCurve}, ids \in Lists(0..MaxLimit, MaxLimit) :
           /\ feldman' = NewFeldman(t, n, curve, ids)
           /\ call' = [op |-> "NewFeldman", threshold |-> t, limit |-> n,
                       curve |-> curve, IDs |-> ids]
    /\ UNCHANGED <<split, verified, poly, protocolVars, otherVars>>

\* NewResharing, called once on arguments of any kind
ConstructResharing ==
    /\ call.op = "none"
    /\ \E t \in 0..(MaxLimit + 1), curve \in {Curve, NilCurve},
          S \in Lists(1..2, MaxLimit), Sn \in Lists(0..MaxLimit, MaxLimit) :
           /\ r' = NewResharing(t, curve, S, Sn)
           /\ call' = [op |-> "NewResharing", threshold |-> t, curve |-> curve,
                       resharingParticipantIDs |-> S, newParticipantIDs |-> Sn]
    /\ UNCHANGED <<participants, newParticipants, rnd1Bcast, rnd1P2p, bcastRnd1Out,
                   p2pRnd1Out, dealt, bcastSent, tampered, ret, crashed>>
    /\ UNCHANGED <<feldman, split, verified, poly, otherVars>>

NextConstruct ==
    \/ Construct
    \/ ConstructResharing

SpecConstruct == InitConstruct /\ [][NextConstruct]_vars

\* ------------------------------------------------------------------------
\* internal.SampleUniqueUint32s
\* ------------------------------------------------------------------------
MaxCount == 3
SampleMins == -1..2
SampleMaxs == 0..4

\* the conversion uint32(num) of a Go int wraps modulo the word size, scaled
\* down here from 2^32 to 2^8 (all sampled ranges lie far below it)
Uint32Modulus == 256
Uint32(num) == num % Uint32Modulus

\* the protocol and the Feldman scheme idle, no GG20 resharing
NoRun ==
    /\ NoFeldman
    /\ NoProtocol
    /\ rps = <<>>
    /\ round1Messages = <<>>
    /\ round2Messages = <<>>
    /\ round3Messages = <<>>
    /\ dealerShares = <<>>
    /\ gg20ret = GG20RetInit

InitSample ==
    /\ sample = [pc |-> "idle"]
    /\ NoRun

\* SampleUniqueUint32s(n, min, max) up to the loop
SampleCall ==
    /\ sample.pc = "idle"
    /\ \E n \in 0..MaxCount, min \in SampleMins, max \in SampleMaxs :
           sample' = IF n > max - min
                     THEN [pc |-> "done", n |-> n, min |-> min, max |-> max, result |-> {},
                           err |-> "cannot sample", uniqueInts |-> <<>>]
                     ELSE [pc |-> "loop", n |-> n, min |-> min, max |-> max, result |-> {},
                           err |-> "nil", uniqueInts |-> <<>>]
    /\ UNCHANGED <<protocolVars, feldmanVars, gg20Vars>>

\* one pass of the loop: num := rand.Intn(max-min) + min; result[num] = true
SampleDraw ==
    /\ sample.pc = "loop"
    /\ Cardinality(sample.result) < sample.n
    /\ \E num \in sample.min..(sample.max - 1) :
           sample' = [sample EXCEPT !.result = @ \cup {num}]
    /\ UNCHANGED <<protocolVars, feldmanVars, gg20Vars>>

\* the loop has ended: the keys of result, in the order the range visits them
SampleReturn ==
    /\ sample.pc = "loop"
    /\ Cardinality(sample.result) >= sample.n
    /\ \E order \in Orders(sample.result) :
           sample' = [sample EXCEPT !.pc = "done",
                                    !.uniqueInts = [k \in 1..Len(order) |-> Uint32(order[k])]]
    /\ UNCHANGED <<protocolVars, feldmanVars, gg20Vars>>

NextSample == SampleCall \/ SampleDraw \/ SampleReturn

\* a pass that draws a number not drawn before
SampleDrawNew == SampleDraw /\ sample'.result # sample.result

\* rand.Intn is uniform: a loop that still misses numbers draws a new one
\* with probability 1
SpecSample ==
    /\ InitSample
    /\ [][NextSample]_vars
    /\ WF_vars(SampleCall)
    /\ WF_vars(SampleDrawNew)
    /\ WF_vars(SampleReturn)

\* ------------------------------------------------------------------------
\* A GG20 resharing: a trusted dealer shares a key among the old parties, all
\* parties build a ReshareParticipant and call the rounds in any order
\* ------------------------------------------------------------------------
\* the resharings whose calls are explored in every order: one party leaves
\* and one joins; one party joins
GG20Configs ==
    { GG20Config(2, 2, <<1, 2>>, <<2, 3>>),
      GG20Config(2, 2, <<1, 2>>, <<1, 2, 3>>) }

\* the Paillier key old party id holds before the resharing
OldPrimes == <<3, 5, 7>>
OldDecryptKey(id) == PaillierNewSecretKey(17, OldPrimes[id])

GG20Parties(config) == Range(config.OldParties) \cup Range(config.NewParties)

\* the shares dealer.NewDealerShares deals: a polynomial of degree
\* OldThreshold - 1 with the key as constant term, evaluated at the ids
DealerShares(config, secret, rnd) ==
    [secret |-> secret,
     publicKey |-> ScalarBaseMult(secret),
     shares |-> [id \in Range(config.OldParties) |->
                    DealerShare(id, PolynomialEvaluate(PolynomialInit(secret, rnd), ScalarNew(id)),
                                ScalarBaseMult(PolynomialEvaluate(PolynomialInit(secret, rnd),
                                                                  ScalarNew(id))))]]

GG20Ret(op, id, result) ==
    [op |-> op, id |-> id, status |-> result.status, err |-> result.err, out |-> result.out,
     adversarial |-> FALSE]

\* the participants NewReshareParticipant builds for a dealt key; an old
\* party brings the Paillier key it holds
InitGG20With(configs) ==
    /\ \E config \in configs, secret \in 1..MaxSecret :
       \E rnd \in [1..(config.OldThreshold - 1) -> 0..MaxRand] :
           /\ dealerShares = DealerShares(config, secret, rnd)
           /\ rps = [id \in GG20Parties(config) |->
                        NewReshareParticipant(
                            id,
                            IF id \in Range(config.OldParties)
                            THEN ParticipantData(id, dealerShares.shares[id], OldDecryptKey(id))
                            ELSE NilPtr,
                            dealerShares.publicKey,
                            config).rp]
    /\ round1Messages = EmptyMap
    /\ round2Messages = EmptyMap
    /\ round3Messages = EmptyMap
    /\ gg20ret = GG20RetInit
    /\ sample = [pc |-> "idle"]
    /\ NoFeldman
    /\ NoProtocol

InitGG20 == InitGG20With(GG20Configs)

\* the run goes on while every call has returned nil, as in a test that
\* requires no error of each call; a call on messages of an adversary ends it
GG20Running ==
    ~gg20ret.adversarial /\ gg20ret.status = "ok"

GG20Frame == UNCHANGED <<protocolVars, feldmanVars, sample, dealerShares>>

\* participant id calls ReshareRound1
GG20Round1(id) ==
    /\ GG20Running
    /\ \E rnd \in [1..(rps[id].Config.NewThreshold - 1) -> 0..MaxRand] :
       \E result \in {GG20ReshareRound1(rps[id], rnd)} :
           /\ rps' = [rps EXCEPT ![id] = result.rp]
           /\ round1Messages' = IF result.status = "ok"
                                THEN Put(round1Messages, id, result.out) ELSE round1Messages
           /\ gg20ret' = GG20Ret("ReshareRound1", id, result)
    /\ UNCHANGED <<round2Messages, round3Messages>>
    /\ GG20Frame

\* the round 1 messages the senders T have for participant id
Round1MessagesFor(id, T) ==
    [k \in 1..Cardinality(T) |-> round1Messages[SetToSeq(T)[k]][id]]

\* participant id calls ReshareRound1Accept on messages it has received
GG20Round1Accept(id) ==
    /\ GG20Running
    /\ \E T \in SUBSET {i \in DOMAIN round1Messages : id \in DOMAIN round1Messages[i]} :
       \E result \in {GG20ReshareRound1Accept(rps[id], Round1MessagesFor(id, T))} :
           /\ rps' = [rps EXCEPT ![id] = result.rp]
           /\ gg20ret' = [GG20Ret("ReshareRound1Accept", id, result) EXCEPT
                             !.out = Cardinality(T)]
    /\ UNCHANGED <<round1Messages, round2Messages, round3Messages>>
    /\ GG20Frame

\* participant id calls ReshareRound2
GG20Round2(id) ==
    /\ GG20Running
    /\ \E result \in {GG20ReshareRound2(rps[id])} :
           /\ round2Messages' = IF result.status = "ok"
                                THEN Put(round2Messages, id, result.out) ELSE round2Messages
           /\ gg20ret' = GG20Ret("ReshareRound2", id, result)
    /\ UNCHANGED <<rps, round1Messages, round3Messages>>
    /\ GG20Frame

\* the messages of a round, as the list the caller hands to Accept
MessageList(m) == [k \in 1..Cardinality(DOMAIN m) |-> m[SetToSeq(DOMAIN m)[k]]]

\* participant id calls ReshareRound2Accept on the keys broadcast so far
GG20Round2Accept(id) ==
    /\ GG20Running
    /\ \E result \in {GG20ReshareRound2Accept(rps[id], MessageList(round2Messages))} :
           /\ rps' = [rps EXCEPT ![id] = result.rp]
           /\ gg20ret' = GG20Ret("ReshareRound2Accept", id, result)
    /\ UNCHANGED <<round1Messages, round2Messages, round3Messages>>
    /\ GG20Frame

\* participant id calls ReshareRound3
GG20Round3(id) ==
    /\ GG20Running
    /\ \E result \in {GG20ReshareRound3(rps[id])} :
           /\ round3Messages' = IF result.status = "ok"
                                THEN Put(round3Messages, id, result.out) ELSE round3Messages
           /\ gg20ret' = GG20Ret("ReshareRound3", id, result)
    /\ UNCHANGED <<rps, round1Messages, round2Messages>>
    /\ GG20Frame

\* participant id calls ReshareRound3Accept on the public shares broadcast so far
GG20Round3Accept(id) ==
    /\ GG20Running
    /\ \E result \in {GG20ReshareRound3Accept(rps[id], MessageList(round3Messages))} :
           /\ rps' = [rps EXCEPT ![id] = result.rp]
           /\ gg20ret' = GG20Ret("ReshareRound3Accept", id, result)
    /\ UNCHANGED <<round1Messages, round2Messages, round3Messages>>
    /\ GG20Frame

\* participant id calls GetReshareResult
GG20GetResult(id) ==
    /\ GG20Running
    /\ gg20ret' = GG20Ret("GetReshareResult", id, GetReshareResult(rps[id]))
    /\ UNCHANGED <<rps, round1Messages, round2Messages, round3Messages>>
    /\ GG20Frame

NextGG20 ==
    \E id \in DOMAIN rps :
        \/ GG20Round1(id)
        \/ GG20Round1Accept(id)
        \/ GG20Round2(id)
        \/ GG20Round2Accept(id)
        \/ GG20Round3(id)
        \/ GG20Round3Accept(id)
        \/ GG20GetResult(id)

SpecGG20 == InitGG20 /\ [][NextGG20]_vars

\* what a call changes of a resharing, the value it returned left out: the
\* participants, the messages and the call that returned
gg20View ==
    <<rps, round1Messages, round2Messages, round3Messages,
      gg20ret.op, gg20ret.id, gg20ret.status, gg20ret.err, gg20ret.adversarial>>

\* ------------------------------------------------------------------------
\* A GG20 resharing run in the order of executeTestResharing: round by round,
\* every call on the complete messages of the round before
\* ------------------------------------------------------------------------
\* the resharings run in this order: a party joins, with the old and with a
\* higher threshold; 2-of-3 becomes 2-of-2; two parties hand over to two others
TestConfigs ==
    { GG20Config(2, 2, <<1, 2>>, <<1, 2, 3>>),
      GG20Config(2, 3, <<1, 2>>, <<1, 2, 3>>),
      GG20Config(2, 2, <<1, 2, 3>>, <<1, 2>>),
      GG20Config(2, 2, <<1, 2>>, <<3, 4>>) }

GG20Config0 == rps[CHOOSE id \in DOMAIN rps : TRUE].Config
OldParties == Range(GG20Config0.OldParties)
NewParties == Range(GG20Config0.NewParties)

InitTest == InitGG20With(TestConfigs)

TestRound1(id) ==
    /\ id \in OldParties
    /\ rps[id].Round = 1
    /\ GG20Round1(id)

TestRound1Accept(id) ==
    /\ id \in NewParties
    /\ DOMAIN round1Messages = OldParties
    /\ rps[id].NewShare = NilPtr
    /\ GG20Round1Accept(id)

TestRound2(id) ==
    /\ id \in NewParties
    /\ \A j \in NewParties : rps[j].NewShare # NilPtr
    /\ id \notin DOMAIN round2Messages
    /\ GG20Round2(id)

TestRound2Accept(id) ==
    /\ id \in NewParties
    /\ DOMAIN round2Messages = NewParties
    /\ rps[id].Round = 2
    /\ GG20Round2Accept(id)

TestRound3(id) ==
    /\ id \in NewParties
    /\ \A j \in NewParties : rps[j].Round = 3
    /\ id \notin DOMAIN round3Messages
    /\ GG20Round3(id)

TestRound3Accept(id) ==
    /\ id \in NewParties
    /\ DOMAIN round3Messages = NewParties
    /\ rps[id].Round = 3
    /\ GG20Round3Accept(id)

TestGetResult(id) ==
    /\ id \in NewParties
    /\ rps[id].Round = 4
    /\ GG20GetResult(id)

NextTest ==
    \E id \in DOMAIN rps :
        \/ TestRound1(id)
        \/ TestRound1Accept(id)
        \/ TestRound2(id)
        \/ TestRound2Accept(id)
        \/ TestRound3(id)
        \/ TestRound3Accept(id)
        \/ TestGetResult(id)

SpecGG20Test == InitTest /\ [][NextTest]_vars

\* ------------------------------------------------------------------------
\* A GG20 resharing whose round 1 messages reach a participant through an
\* adversary: old parties send their shares, then a new party accepts a batch
\* in which any message may have been altered
\* ------------------------------------------------------------------------
\* what the adversary can make of a message: another recipient, another
\* share, no commitments or another commitment of the highest degree
Round1Tampered(m) ==
    { [m EXCEPT !.ToID = to, !.Share = share, !.Commitments = commitments] :
        to \in {m.ToID, m.ToID + 1},
        share \in {m.Share, BigMod(m.Share + 1, Q)},
        commitments \in {m.Commitments, <<>>,
                         [m.Commitments EXCEPT ![Len(m.Commitments)] = PointAdd(@, GEN)]} }

\* the batches of one message per old party that can reach participant id
Round1Batches(id) ==
    LET honest == Round1MessagesFor(id, DOMAIN round1Messages)
    IN { batch \in [DOMAIN honest -> UNION {Round1Tampered(honest[k]) : k \in DOMAIN honest}] :
           \A k \in DOMAIN honest : batch[k] \in Round1Tampered(honest[k]) }

\* participant id calls ReshareRound1Accept on a batch from the adversary
AdvRound1Accept(id) ==
    /\ GG20Running
    /\ id \in NewParties
    /\ DOMAIN round1Messages = OldParties
    /\ \E batch \in Round1Batches(id) :
       \E result \in {GG20ReshareRound1Accept(rps[id], batch)} :
           /\ rps' = [rps EXCEPT ![id] = result.rp]
           /\ gg20ret' = [GG20Ret("ReshareRound1Accept", id, result) EXCEPT
                             !.out = batch, !.adversarial = TRUE]
    /\ UNCHANGED <<round1Messages, round2Messages, round3Messages>>
    /\ GG20Frame

NextAdv1 ==
    \E id \in DOMAIN rps :
        \/ TestRound1(id)
        \/ AdvRound1Accept(id)

SpecGG20Adv1 == InitGG20 /\ [][NextAdv1]_vars

\* ------------------------------------------------------------------------
\* A GG20 resharing whose round 2 messages reach a participant through an
\* adversary: after round 1 a new party accepts a list of Paillier key
\* messages in which keys may be nil, missing or repeated
\* ------------------------------------------------------------------------
\* the longest list of messages an Accept is called on
MaxMessages == 2

\* the lists of at most MaxMessages messages over the set M
MessageLists(M) == UNION {[1..n -> M] : n \in 0..MaxMessages}

\* the round 2 messages that can reach a participant: of each party, its
\* Paillier public key or a nil key
Round2Forged ==
    { ReshareRound2Bcast(j, key) : j \in DOMAIN rps, key \in {Nil} } \cup
    { ReshareRound2Bcast(j, rps[j].PaillierPubKey) : j \in DOMAIN rps }

\* participant id calls ReshareRound2Accept on a list from the adversary
AdvRound2Accept(id) ==
    /\ GG20Running
    /\ id \in NewParties
    /\ rps[id].Round = 2
    /\ \E messages \in MessageLists(Round2Forged) :
       \E result \in {GG20ReshareRound2Accept(rps[id], messages)} :
           /\ rps' = [rps EXCEPT ![id] = result.rp]
           /\ gg20ret' = [GG20Ret("ReshareRound2Accept", id, result) EXCEPT
                             !.out = messages, !.adversarial = TRUE]
    /\ UNCHANGED <<round1Messages, round2Messages, round3Messages>>
    /\ GG20Frame

NextAdv2 ==
    \E id \in DOMAIN rps :
        \/ TestRound1(id)
        \/ TestRound1Accept(id)
        \/ AdvRound2Accept(id)

SpecGG20Adv2 == InitGG20 /\ [][NextAdv2]_vars

\* ------------------------------------------------------------------------
\* A GG20 resharing whose round 3 messages reach a participant through an
\* adversary: after rounds 1 and 2 a new party accepts a list of public share
\* messages in which shares may be nil, missing, repeated or of a party that
\* is not among the new ones
\* ------------------------------------------------------------------------
\* the round 3 messages that can reach a participant: of each party, a nil
\* share or a point, its own public share point when it has one
Round3Forged ==
    { ReshareRound3Bcast(j, point) : j \in DOMAIN rps, point \in {Nil} } \cup
    { ReshareRound3Bcast(j, IF rps[j].NewShare # NilPtr THEN rps[j].NewShare.Point ELSE GEN) :
        j \in DOMAIN rps }

\* participant id calls ReshareRound3Accept on a list from the adversary
AdvRound3Accept(id) ==
    /\ GG20Running
    /\ id \in NewParties
    /\ rps[id].Round = 3
    /\ \E messages \in MessageLists(Round3Forged) :
       \E result \in {GG20ReshareRound3Accept(rps[id], messages)} :
           /\ rps' = [rps EXCEPT ![id] = result.rp]
           /\ gg20ret' = [GG20Ret("ReshareRound3Accept", id, result) EXCEPT
                             !.out = messages, !.adversarial = TRUE]
    /\ UNCHANGED <<round1Messages, round2Messages, round3Messages>>
    /\ GG20Frame

NextAdv3 ==
    \E id \in DOMAIN rps :
        \/ TestRound1(id)
        \/ TestRound1Accept(id)
        \/ TestRound2(id)
        \/ TestRound2Accept(id)
        \/ AdvRound3Accept(id)

SpecGG20Adv3 == InitGG20 /\ [][NextAdv3]_vars

\* ------------------------------------------------------------------------
\* A GG20 resharing in which the caller of ReshareRound1Accept hands over any
\* list of messages it has: shares of old parties that have dealt, repeated
\* or not, a share of a party that is not an old one, a share that does not
\* verify; a call that failed may be followed by another
\* ------------------------------------------------------------------------
\* a party of the resharing that holds no old share
Outsider == CHOOSE j \in NewParties : j \notin OldParties

\* the round 1 messages participant id can be handed: those the old parties
\* have produced for it, a share of the outsider with its own commitment, and
\* a share of old party 2 that does not match its commitment
BatchPool(id) ==
    { round1Messages[i][id] : i \in DOMAIN round1Messages } \cup
    { ReshareRound1Bcast(Outsider, id, 1, <<ScalarBaseMult(1)>>),
      ReshareRound1Bcast(2, id, 0, <<ScalarBaseMult(1)>>) }

\* old party id deals its shares
BatchRound1(id) ==
    /\ id \in OldParties
    /\ rps[id].Round = 1
    /\ \E rnd \in [1..(rps[id].Config.NewThreshold - 1) -> 0..MaxRand] :
       \E result \in {GG20ReshareRound1(rps[id], rnd)} :
           /\ rps' = [rps EXCEPT ![id] = result.rp]
           /\ round1Messages' = Put(round1Messages, id, result.out)
           /\ gg20ret' = GG20Ret("ReshareRound1", id, result)
    /\ UNCHANGED <<round2Messages, round3Messages>>
    /\ GG20Frame

\* the party that joins calls ReshareRound1Accept on a list of messages of
\* the pool, until a call returns nil
BatchRound1Accept(id) ==
    /\ id = Outsider
    /\ ~(gg20ret.op = "ReshareRound1Accept" /\ gg20ret.status = "ok")
    /\ \E batch \in MessageLists(BatchPool(id)) :
       \E result \in {GG20ReshareRound1Accept(rps[id], batch)} :
           /\ rps' = [rps EXCEPT ![id] = result.rp]
           /\ gg20ret' = [GG20Ret("ReshareRound1Accept", id, result) EXCEPT !.out = batch]
    /\ UNCHANGED <<round1Messages, round2Messages, round3Messages>>
    /\ GG20Frame

NextBatch ==
    \E id \in DOMAIN rps :
        \/ BatchRound1(id)
        \/ BatchRound1Accept(id)

SpecGG20Batch == InitGG20 /\ [][NextBatch]_vars

\* ------------------------------------------------------------------------
\* Round 1 of a GG20 resharing with the two operations of a party that
\* stays called in any order and any number of times: ReshareRound1, and
\* ReshareRound1Accept on any list of the messages addressed to the party
\* that have been dealt so far
\* ------------------------------------------------------------------------
Stays(id) == id \in OldParties /\ id \in NewParties

\* an old party calls ReshareRound1, in whatever round it is
OrderRound1(id) ==
    /\ id \in OldParties
    /\ \E rnd \in [1..(rps[id].Config.NewThreshold - 1) -> 0..MaxRand] :
       \E result \in {GG20ReshareRound1(rps[id], rnd)} :
           /\ rps' = [rps EXCEPT ![id] = result.rp]
           /\ round1Messages' = IF result.status = "ok"
                                THEN Put(round1Messages, id, result.out) ELSE round1Messages
           /\ gg20ret' = [GG20Ret("ReshareRound1", id, result) EXCEPT !.out = <<>>]
    /\ UNCHANGED <<round2Messages, round3Messages>>
    /\ GG20Frame

\* a party that stays calls ReshareRound1Accept on messages it has received
OrderRound1Accept(id) ==
    /\ Stays(id)
    /\ \E batch \in MessageLists({round1Messages[i][id] : i \in DOMAIN round1Messages}) :
       \E result \in {GG20ReshareRound1Accept(rps[id], batch)} :
           /\ rps' = [rps EXCEPT ![id] = result.rp]
           /\ gg20ret' = [GG20Ret("ReshareRound1Accept", id, result) EXCEPT !.out = batch]
    /\ UNCHANGED <<round1Messages, round2Messages, round3Messages>>
    /\ GG20Frame

NextOrder ==
    \E id \in DOMAIN rps :
        \/ OrderRound1(id)
        \/ OrderRound1Accept(id)

SpecGG20Order == InitGG20 /\ [][NextOrder]_vars

\* ------------------------------------------------------------------------
\* A GG20 resharing, in the order of executeTestResharing, in which an old
\* party may deal a Feldman sharing of another value than its share
\* ------------------------------------------------------------------------
\* old party id runs ReshareRound1 on a share it has altered: the messages
\* and commitments are those of a participant holding OldShare + 1
CheatRound1(id) ==
    /\ GG20Running
    /\ id \in OldParties
    /\ rps[id].Round = 1
    /\ \E rnd \in [1..(rps[id].Config.NewThreshold - 1) -> 0..MaxRand] :
       \E result \in {GG20ReshareRound1(
                          [rps[id] EXCEPT !.OldShare.Value = BigMod(@ + 1, Q)], rnd)} :
           /\ rps' = [rps EXCEPT ![id] = [result.rp EXCEPT !.OldShare = rps[id].OldShare]]
           /\ round1Messages' = Put(round1Messages, id, result.out)
           /\ gg20ret' = GG20Ret("ReshareRound1", id, result)
    /\ UNCHANGED <<round2Messages, round3Messages>>
    /\ GG20Frame

NextCheat ==
    \E id \in DOMAIN rps :
        \/ TestRound1(id)
        \/ CheatRound1(id)
        \/ TestRound1Accept(id)
        \/ TestRound2(id)
        \/ TestRound2Accept(id)
        \/ TestRound3(id)
        \/ TestRound3Accept(id)
        \/ TestGetResult(id)

SpecGG20Cheat == InitGG20 /\ [][NextCheat]_vars

\* ------------------------------------------------------------------------
\* Properties
\* ------------------------------------------------------------------------
\* the shares the participants ps of the set T hold, as Combine takes them
SharesOf(ps, T) ==
    [k \in 1..Cardinality(T) |->
        ShamirShare(SetToSeq(T)[k], ScalarBytes(ps[SetToSeq(T)[k]].SkShare))]

\* the participants of ps that hold a share
Holders(ps) == {id \in DOMAIN ps : ps[id].SkShare # Nil}

\* the old committee's scheme, the senders and the secret their shares combine to
OldShamir == NewShamir(DkgThreshold, Cardinality(DkgIDs))
Senders == Range(r.ResharingParticipantIDs)
OldCombine == ShamirCombine(OldShamir, SharesOf(participants, Senders))

\* C1: after an honest resharing every new participant that completed
\* ResharingRound2 holds the verification key the old committee held.
C1_GroupKeyPreserved ==
    \A j \in Holders(newParticipants) : \A i \in DkgIDs :
        newParticipants[j].VerificationKey = participants[i].VerificationKey

C1_Witness ==
    /\ Holders(newParticipants) = DOMAIN newParticipants
    /\ Cardinality(Senders) >= DkgThreshold
    /\ \A j \in DOMAIN newParticipants :
           newParticipants[j].VerificationKey = participants[1].VerificationKey

\* C2: Lagrange-combining the new shares of any t' new participants gives the
\* secret that combining the old shares of the senders S gives.
C2_SecretPreserved ==
    \A T \in SUBSET Holders(newParticipants) :
        Cardinality(T) = r.Threshold =>
            LET new == ShamirCombine(NewShamir(r.Threshold, Len(r.NewParticipantIDs)),
                                     SharesOf(newParticipants, T))
            IN /\ new.err = "nil"
               /\ OldCombine.err = "nil"
               /\ new.secret = OldCombine.secret

C2_Witness ==
    /\ r.Threshold = 3
    /\ Cardinality(Holders(newParticipants)) = 3
    /\ OldCombine.err = "nil"
    /\ ShamirCombine(NewShamir(3, 3), SharesOf(newParticipants, Holders(newParticipants))).secret
           = OldCombine.secret

\* C3: after an honest DKG and an honest resharing every share lies on the
\* committed polynomial, g * SkShare_j = EvalCommitmentPoly(Commitments, j), and
\* the panic that ends ResharingRound2 on a failed self-check is never reached.
C3_ShareOnCommitments ==
    /\ ~crashed
    /\ \A i \in DkgIDs :
           ScalarBaseMult(participants[i].SkShare)
               = EvalCommitmentPoly(participants[i].Commitments, ScalarNew(i))
    /\ \A j \in Holders(newParticipants) :
           ScalarBaseMult(newParticipants[j].SkShare)
               = EvalCommitmentPoly(newParticipants[j].Commitments, ScalarNew(j))

C3_Witness ==
    /\ ret = Ret("ResharingRound2Unchecked", 5, NoErr)
    /\ newParticipants[5].SkShare # Nil
    /\ ScalarBaseMult(newParticipants[5].SkShare)
           = EvalCommitmentPoly(newParticipants[5].Commitments, ScalarNew(5))

\* the participants that have completed the DKG
DkgDone == {id \in DkgIDs : participants[id].round = 3}

\* C4: after an honest DKG all participants hold the same verification key and
\* the same commitments, and Commitments[0] is the verification key.
C4_DkgAgreement ==
    \A a \in DkgDone : \A b \in DkgDone :
        /\ participants[a].VerificationKey # Nil
        /\ participants[a].VerificationKey = participants[b].VerificationKey
        /\ participants[a].Commitments = participants[b].Commitments
        /\ participants[a].Commitments[1] = participants[a].VerificationKey

C4_Witness ==
    /\ DkgDone = DkgIDs
    /\ participants[1].Commitments = participants[3].Commitments
    /\ participants[2].VerificationKey = participants[2].Commitments[1]

\* C5: after an honest DKG the shares of any t or more participants combine to
\* one secret sk, with g * sk the verification key and sk the sum of the
\* secrets the participants dealt.
C5_DkgSecret ==
    \A T \in SUBSET DkgDone :
        Cardinality(T) >= DkgThreshold =>
            LET c == ShamirCombine(OldShamir, SharesOf(participants, T))
            IN /\ c.err = "nil"
               /\ c.secret = SumScalars(dealt, DkgIDs)
               /\ \A i \in T : ScalarBaseMult(c.secret) = participants[i].VerificationKey

C5_Witness ==
    /\ DkgDone = DkgIDs
    /\ dealt = [id \in DkgIDs |-> MaxSecret]
    /\ ShamirCombine(OldShamir, SharesOf(participants, {2, 3})).secret
           = ScalarNew(3 * MaxSecret)

\* C8: a participant is created in round 1; Round1 runs only in round 1 and
\* moves it to round 2; Round2 runs only in round 2 and moves it to round 3,
\* where it stays; a call out of order returns an error and changes nothing.
C8_RoundStep ==
    \A id \in DkgIDs :
        LET a == participants[id].round
            b == participants'[id].round
        IN /\ \/ a = b
              \/ a = 1 /\ b = 2 /\ ret' = Ret("Round1", id, NoErr)
              \/ a = 2 /\ b = 3 /\ ret' = Ret("Round2", id, NoErr)
           /\ (ret'.op = "Round1" /\ ret'.id = id /\ a = 1) => (b = 2 /\ ret'.err = NoErr)
           /\ (ret'.op = "Round1" /\ ret'.id = id /\ a # 1) =>
                  (ret'.err = ErrInvalidRound /\ participants' = participants)
           /\ (ret'.op = "Round2" /\ ret'.id = id /\ a # 2) =>
                  (ret'.err = ErrInvalidRound /\ participants' = participants)
           /\ a = 3 => b = 3

C8_RoundOrder ==
    /\ \A id \in DkgIDs : participants[id].round = 1
    /\ [][C8_RoundStep]_vars

C8_Witness ==
    /\ ret = Ret("Round1", 2, ErrInvalidRound)
    /\ participants[2].round = 3
    /\ participants[1].round = 2

\* the calls of ResharingRound2 and what the sub-share check says of their inputs
RR2Call(j) == ret'.op = "ResharingRound2Unchecked" /\ ret'.id = j

SubShareDecodes(i, j) == ScalarSetBytes(p2pRnd1Out[i][j].Value) # Nil

SubShareOk(i, j) ==
    /\ SubShareDecodes(i, j)
    /\ ScalarBaseMult(ScalarSetBytes(p2pRnd1Out[i][j].Value))
           = EvalCommitmentPoly(
                 [bcastRnd1Out[i].As EXCEPT
                     ![1] = EvalCommitmentPoly(bcastRnd1Out[i].PHIs, ScalarNew(i))],
                 ScalarNew(j))

\* C6: when a sender's broadcast arrives with an arbitrary As[0] and all else
\* is as sent, every call of ResharingRound2 returns what it returns on the
\* broadcasts as sent, leaves the participant with the same SkShare,
\* Commitments and VerificationKey, and the key of a successful call is the
\* old committee's key.
C6_Step ==
    (\E i \in DkgIDs : tampered = {[kind |-> "A0", i |-> i]}) =>
        \A j \in DOMAIN newParticipants :
            RR2Call(j) =>
                \A S \in Orders(DOMAIN bcastSent) :
                    LET h == ResharingRound2Unchecked(newParticipants[j], DkgThreshold,
                                                      bcastSent, P2pFor(j), S)
                    IN /\ ret'.err = h.err
                       /\ crashed' = (h.status = "panic")
                       /\ newParticipants'[j] = h.dp
                       /\ h.status = "ok" =>
                              newParticipants'[j].VerificationKey
                                  = participants[1].VerificationKey

C6_CrossBinding == [][C6_Step]_vars

C6_Witness ==
    /\ tampered = {[kind |-> "A0", i |-> 2]}
    /\ ret = Ret("ResharingRound2Unchecked", 4, NoErr)
    /\ newParticipants[4].SkShare # Nil
    /\ newParticipants[4].VerificationKey = participants[1].VerificationKey
    /\ bcastRnd1Out[2].As[1] = EvalCommitmentPoly(bcastRnd1Out[2].PHIs, ScalarNew(2))

\* C7: a call of ResharingRound2 by j whose inputs hold a sub-share that
\* decodes and fails g * sub_i = EvalCommitmentPoly(As_i with As_i[0] replaced
\* by EvalCommitmentPoly(PHIs_i, i), j) returns the error "invalid share"
\* naming such a sender i and the recipient j and changes nothing; an error
\* "invalid share" names only such a sender; and the call gets past the loop
\* only if every sender's sub-share satisfies the equation.
C7_Step ==
    \A j \in DOMAIN newParticipants :
        RR2Call(j) =>
            LET Bad == {i \in Senders : SubShareDecodes(i, j) /\ ~SubShareOk(i, j)}
                Undecodable == {i \in Senders : ~SubShareDecodes(i, j)}
                named == /\ ~crashed'
                         /\ ret'.err.msg = "invalid share"
                         /\ ret'.err.i \in Bad
                         /\ ret'.err.j = j
            IN /\ (Bad # {} /\ Undecodable = {}) => (named /\ newParticipants' = newParticipants)
               /\ Bad # {} => ret'.err # NoErr
               /\ (ret'.err.msg = "invalid share" /\ ~crashed') => named
               /\ (ret'.err = NoErr \/ crashed') => \A i \in Senders : SubShareOk(i, j)

C7_SubShareRejected == [][C7_Step]_vars

C7_Witness ==
    /\ tampered = {[kind |-> "share", i |-> 2]}
    /\ ret = Ret("ResharingRound2Unchecked", 4, Err("invalid share", 2, 4))
    /\ ~crashed
    /\ newParticipants[4].SkShare = Nil
    /\ SubShareDecodes(2, 4)
    /\ ~SubShareOk(2, 4)

\* what a call of ResharingRound2 by j on the present inputs gives when the
\* map is iterated in the order S
RR2Outcome(j, S) ==
    LET h == ResharingRound2Unchecked(newParticipants[j], DkgThreshold, bcastRnd1Out,
                                      P2pFor(j), S)
    IN <<h.status = "ok", h.dp.SkShare, h.dp.Commitments, h.dp.VerificationKey>>

\* C9: on every input, honest or not, what ResharingRound2 gives (success or
\* failure, SkShare, Commitments, VerificationKey) is the same for every order
\* in which the senders' entries are iterated.
C9_OrderIndependent ==
    \A j \in DOMAIN newParticipants :
        RR2Ready(j) =>
            \A S1 \in Orders(DOMAIN bcastRnd1Out) : \A S2 \in Orders(DOMAIN bcastRnd1Out) :
                RR2Outcome(j, S1) = RR2Outcome(j, S2)

\* the self-check has ended a call that another iteration order lets succeed
C9_Witness ==
    /\ crashed
    /\ ret = Ret("ResharingRound2Unchecked", 3, Err("invalid share", 0, 3))
    /\ tampered = {[kind |-> "PHIs", i |-> 2]}
    /\ \E S \in Orders(DOMAIN bcastRnd1Out) :
           ResharingRound2Unchecked(newParticipants[3], DkgThreshold, bcastRnd1Out,
                                    P2pFor(3), S).status = "ok"

\* C10: every share Feldman.Split returns is accepted by Verify of the
\* verifier the same Split returned, whatever the scheme (t, n, ids) and the
\* non-zero secret.
C10_SplitSharesVerify ==
    verified # <<>> => verified[2] = "nil"

C10_Witness ==
    /\ feldman.Threshold = 3
    /\ feldman.IDs = <<2, 4, 5>>
    /\ split.err = "nil"
    /\ split.verifier[2] # PointIdentity
    /\ verified = <<5, "nil">>

\* the shares of the list l are distinct shares the last Split returned
SplitShares(l) ==
    /\ \A k \in DOMAIN l : l[k] \in Range(split.shares)
    /\ NoDup(l)

\* C11: Combine of any t distinct shares returned by Split, in any order,
\* returns the secret that was split, for default and for arbitrary
\* identifiers.
C11_CombineRecovers ==
    (call.op = "Combine" /\ Len(call.shares) = feldman.Threshold /\ SplitShares(call.shares))
        => (call.out.err = "nil" /\ call.out.secret = poly[1])

C11_Witness ==
    /\ feldman.Threshold = 2
    /\ feldman.IDs = <<6, 5, 4>>
    /\ poly = <<2, 1>>
    /\ call.op = "Combine"
    /\ call.shares = <<split.shares[4], split.shares[6]>>
    /\ call.out = [err |-> "nil", secret |-> 2]

RECURSIVE Power(_, _)
Power(x, k) == IF k = 0 THEN 1 ELSE (x * Power(x, k - 1)) % Q

RECURSIVE CommitmentSum(_, _, _)
\* sum over k < n of commitments[k+1] * x^k
CommitmentSum(commitments, x, n) ==
    IF n = 0 THEN 0
    ELSE (CommitmentSum(commitments, x, n - 1) + commitments[n] * Power(x, n - 1)) % Q

\* the share sh with its value replaced by value + 1
PlusOne(sh) == ShamirShare(sh.Id, ScalarBytes(ScalarAdd(ScalarSetBytes(sh.Value), ScalarOne)))

\* C12: Verify accepts a well-formed share (id, value) exactly when
\* g * value equals the sum over k of C_k * id^k; a share returned by Split
\* whose value was replaced by value + 1 is rejected.
C12_VerifyIff ==
    call.op = "VerifyShare" =>
        /\ (call.out = "nil") <=>
               ((GEN * ScalarSetBytes(call.share.Value)) % Q
                    = CommitmentSum(split.verifier, call.share.Id, Len(split.verifier)))
        /\ (\E id \in DOMAIN split.shares : call.share = PlusOne(split.shares[id]))
               => call.out = "not equal"

C12_Witness ==
    /\ feldman.Threshold = 2 /\ feldman.Limit = 3
    /\ poly = <<1, 1>>
    /\ call.op = "VerifyShare"
    /\ call.share = PlusOne(split.shares[2])
    /\ call.out = "not equal"
    /\ \A id \in DOMAIN split.shares : FeldmanVerify(split.verifier, split.shares[id]) = "nil"

\* C13: NewFeldman returns a scheme exactly when 2 <= t <= n <= 255, the
\* curve is not nil and the identifiers are omitted or are n pairwise
\* distinct non-zero values; otherwise it returns an error and no scheme.
C13_NewFeldmanIff ==
    call.op = "NewFeldman" =>
        LET valid ==
                /\ 2 <= call.threshold /\ call.threshold <= call.limit /\ call.limit <= MaxShares
                /\ call.curve # NilCurve
                /\ \/ call.IDs = <<>>
                   \/ /\ Len(call.IDs) = call.limit
                      /\ \A k \in DOMAIN call.IDs : call.IDs[k] # 0
                      /\ \A a, b \in DOMAIN call.IDs : a # b => call.IDs[a] # call.IDs[b]
        IN /\ (feldman.err = "nil") <=> valid
           /\ feldman.err # "nil" => DOMAIN feldman = {"err"}
           /\ feldman.err = "nil" =>
                  /\ feldman.Threshold = call.threshold
                  /\ feldman.Limit = call.limit
                  /\ feldman.IDs = IF call.IDs = <<>> THEN [k \in 1..call.limit |-> k]
                                   ELSE call.IDs

C13_Witness ==
    /\ call.op = "NewFeldman"
    /\ call.threshold = 2 /\ call.limit = 3 /\ call.curve = Curve
    /\ call.IDs = <<3, 1, 3>>
    /\ feldman = [err |-> "duplicate id found"]

RECURSIVE PolySum(_, _, _)
\* sum over k < n of a[k+1] * x^k
PolySum(a, x, n) ==
    IF n = 0 THEN 0 ELSE (PolySum(a, x, n - 1) + a[n] * Power(x, n - 1)) % Q

\* C14: Split of the zero secret fails and returns neither verifier nor
\* shares; Split of another secret returns one share per configured
\* identifier, keyed by its id, of value f(id), and t commitments
\* C_k = g * a_k with a_0 the secret.
C14_SplitResult ==
    call.op = "Split" =>
        IF call.secret = 0
        THEN /\ split.err # "nil"
             /\ split.verifier = <<>>
             /\ DOMAIN split.shares = {}
        ELSE /\ split.err = "nil"
             /\ poly[1] = call.secret
             /\ DOMAIN split.shares = Range(feldman.IDs)
             /\ Cardinality(DOMAIN split.shares) = feldman.Limit
             /\ \A id \in DOMAIN split.shares :
                    /\ split.shares[id].Id = id
                    /\ ScalarSetBytes(split.shares[id].Value) = PolySum(poly, id, Len(poly))
             /\ Len(split.verifier) = feldman.Threshold
             /\ \A k \in 1..feldman.Threshold : split.verifier[k] = (GEN * poly[k]) % Q

C14_Witness ==
    /\ call = [op |-> "Split", secret |-> 2]
    /\ feldman.Threshold = 3
    /\ feldman.IDs = <<1, 3, 6>>
    /\ poly = <<2, 1, 1>>
    /\ DOMAIN split.shares = {1, 3, 6}
    /\ split.verifier = <<6, 3, 3>>

\* C15: Combine returns an error and no secret when it is given fewer than
\* t shares (none included), a share of id 0, or two shares of the same id.
C15_CombineRejects ==
    (/\ call.op = "Combine"
     /\ \/ Len(call.shares) < feldman.Threshold
        \/ \E k \in DOMAIN call.shares : call.shares[k].Id = 0
        \/ \E a, b \in DOMAIN call.shares : a # b /\ call.shares[a].Id = call.shares[b].Id)
        => (call.out.err # "nil" /\ DOMAIN call.out = {"err"})

C15_Witness ==
    /\ feldman.Threshold = 2 /\ feldman.Limit = 3
    /\ call.op = "Combine"
    /\ call.shares = <<split.shares[1], split.shares[1]>>
    /\ call.out = [err |-> "duplicate share"]

RECURSIVE SumMod(_, _)
\* the sum modulo Q of the numbers of the sequence l
SumMod(l, n) == IF n = 0 THEN 0 ELSE (SumMod(l, n - 1) + l[n]) % Q

\* C16: the Lagrange coefficients at 0 of a set of distinct non-zero
\* identifiers, as LagrangeCoeffs and as calculateLagrangeCoefficient compute
\* them, lie in 0..Q-1 and sum to 1 modulo Q; the coefficient of a
\* single-element set is 1.
C16_LagrangeIdentity ==
    /\ call.op = "calculateLagrangeCoefficient" =>
           /\ \A k \in DOMAIN call.out : call.out[k] \in 0..(Q - 1)
           /\ SumMod(call.out, Len(call.out)) = 1
           /\ Len(call.ids) = 1 => call.out[1] = 1
    /\ call.op = "LagrangeCoeffs" =>
           /\ (call.out.err = "nil") <=> (Cardinality(call.ids) >= feldman.Threshold)
           /\ call.out.err = "nil" =>
                  LET ids == SetToSeq(call.ids)
                  IN /\ DOMAIN call.out.coeffs = call.ids
                     /\ \A j \in call.ids : call.out.coeffs[j] \in 0..(Q - 1)
                     /\ SumMod([k \in DOMAIN ids |-> call.out.coeffs[ids[k]]], Len(ids)) = 1
                     /\ \A j \in call.ids :
                            call.out.coeffs[j] = calculateLagrangeCoefficient(j, ids, Q)

C16_Witness ==
    /\ call.op = "calculateLagrangeCoefficient"
    /\ call.ids = <<5, 2, 4>>
    /\ call.out = <<5, 1, 2>>

\* C17: for a polynomial f and its commitments C_k = g * a_k,
\* EvalCommitmentPoly(C, x) equals g * f(x), the sum over k of C_k * x^k,
\* which is the right-hand side Verify computes, at every scalar x.
C17_EvalCommitmentPoly ==
    call.op = "EvalCommitmentPoly" =>
        /\ call.out = (GEN * PolySum(poly, call.x, Len(poly))) % Q
        /\ call.out = CommitmentSum(split.verifier, call.x, Len(split.verifier))
        /\ call.out = VerifyRhs(split.verifier, call.x, 2, ScalarOne, split.verifier[1])

C17_Witness ==
    /\ poly = <<2, 1, 1>>
    /\ split.verifier = <<6, 3, 3>>
    /\ call = [op |-> "EvalCommitmentPoly", x |-> 3, out |-> 0]

\* C18: NewResharing returns ErrNilArguments when the curve is nil or one of
\* the lists S and S' is empty, an error when S or S' holds a duplicate, and
\* a Resharing object only when both lists are non-empty and duplicate-free.
C18_NewResharing ==
    call.op = "NewResharing" =>
        LET S == call.resharingParticipantIDs
            Sn == call.newParticipantIDs
            dup(l) == \E a, b \in DOMAIN l : a # b /\ l[a] = l[b]
        IN /\ (call.curve = NilCurve \/ S = <<>> \/ Sn = <<>>) => r.err = ErrNilArguments
           /\ (dup(S) \/ dup(Sn)) => r.err # NoErr
           /\ r.err # NoErr => DOMAIN r = {"err"}
           /\ r.err = NoErr =>
                  /\ S # <<>> /\ Sn # <<>> /\ ~dup(S) /\ ~dup(Sn)
                  /\ r.Threshold = call.threshold
                  /\ r.ResharingParticipantIDs = S
                  /\ r.NewParticipantIDs = Sn

C18_Witness ==
    /\ call.op = "NewResharing"
    /\ call.curve = Curve /\ call.threshold = 2
    /\ call.resharingParticipantIDs = <<1, 2, 1>>
    /\ call.newParticipantIDs = <<1, 2, 3>>
    /\ r = [err |-> Err("duplicate resharing participant ID", 0, 0)]

\* what ResharingRound1 of old participant i has to return: As of length t'
\* with As[0] = g * SkShare_i, PHIs the old joint commitments, and one
\* sub-share per new id, keyed by it, on a polynomial of degree t' - 1 with
\* constant term SkShare_i whose commitments are As
Round1OutputOk(i) ==
    /\ i \in DOMAIN bcastSent /\ i \in DOMAIN p2pRnd1Out
    /\ LET As == bcastSent[i].As
           sk == participants[i].SkShare
       IN /\ Len(As) = r.Threshold
          /\ As[1] = (GEN * sk) % Q
          /\ bcastSent[i].PHIs = participants[i].Commitments
          /\ DOMAIN p2pRnd1Out[i] = Range(r.NewParticipantIDs)
          /\ \E rnd \in [1..(r.Threshold - 1) -> Scalars] :
                 /\ \A k \in 1..(r.Threshold - 1) : As[k + 1] = (GEN * rnd[k]) % Q
                 /\ \A j \in DOMAIN p2pRnd1Out[i] :
                        /\ p2pRnd1Out[i][j].Id = j
                        /\ ScalarSetBytes(p2pRnd1Out[i][j].Value)
                               = PolySum(<<sk>> \o rnd, j, r.Threshold)
          /\ \A j \in DOMAIN p2pRnd1Out[i] :
                 (GEN * ScalarSetBytes(p2pRnd1Out[i][j].Value)) % Q = EvalCommitmentPoly(As, j)

\* the last call was a round 1 of resharing run for old participant i
Round1Returned(i) ==
    /\ ret.op \in {"ResharingRound1", "DkgParticipant.ResharingRound1"}
    /\ ret.id = i

\* C19 as stated: ResharingRound1 of an old participant i of S that holds a
\* share and the joint commitments returns the broadcast and the sub-shares.
C19_Round1Output ==
    \A i \in Senders :
        (/\ Round1Returned(i)
         /\ participants[i].SkShare # Nil
         /\ participants[i].Commitments # <<>>)
            => (ret.err = NoErr /\ Round1OutputOk(i))

\* C19, amended: the same for an old participant whose share is not the zero
\* scalar; with the zero scalar the ResharingRound1 of Resharing returns the
\* "invalid secret" error of Feldman.Split and produces nothing, while the
\* ResharingRound1 of DkgParticipant still returns the output.
C19_Round1OutputNonZero ==
    \A i \in Senders :
        (/\ Round1Returned(i)
         /\ participants[i].SkShare # Nil
         /\ participants[i].Commitments # <<>>)
            => IF participants[i].SkShare # 0 \/ ret.op = "DkgParticipant.ResharingRound1"
               THEN ret.err = NoErr /\ Round1OutputOk(i)
               ELSE /\ ret.err = Err("invalid secret", 0, 0)
                    /\ i \notin DOMAIN bcastSent
                    /\ i \notin DOMAIN p2pRnd1Out

C19_Witness ==
    /\ ret = Ret("ResharingRound1", 2, NoErr)
    /\ r.Threshold = 3
    /\ participants[2].SkShare # 0
    /\ bcastSent[2].As[3] # PointIdentity
    /\ Round1OutputOk(2)

\* the last call was a ResharingRound2 run by new participant j
Round2Returned(j) ==
    /\ ret.op \in {"ResharingRound2", "ResharingRound2Unchecked"}
    /\ ret.id = j

\* C20: ResharingRound2 accepts a broadcast only when its As has exactly t'
\* entries, t' the threshold of the receiving participant, and rejects any
\* other length with an error; the broadcasts of ResharingRound1 for t' pass
\* this structural check.
C20_AsLengthCheck ==
    \A j \in DOMAIN newParticipants :
        Round2Returned(j) =>
            LET tn == newParticipants[j].Threshold
            IN /\ (\A i \in DOMAIN bcastRnd1Out : Len(bcastRnd1Out[i].As) = tn)
                      => ret.err.msg # "invalid broadcast data"
               /\ (\E i \in DOMAIN bcastRnd1Out : Len(bcastRnd1Out[i].As) # tn)
                      => ret.err # NoErr

C20_Witness ==
    /\ ret = Ret("ResharingRound2", 1, Err("invalid broadcast data", 0, 0))
    /\ newParticipants[1].Threshold = 3
    /\ DOMAIN bcastRnd1Out = {1, 2}
    /\ \A i \in DOMAIN bcastRnd1Out :
           /\ bcastRnd1Out[i] = bcastSent[i]
           /\ Len(bcastRnd1Out[i].As) = 3
           /\ Len(bcastRnd1Out[i].PHIs) = DkgThreshold

\* the Lagrange coefficient at 0 of sender i among the senders
SenderCoeff(i) == calculateLagrangeCoefficient(i, SetToSeq(Senders), Q)

\* sum over the senders of a scalar term
RECURSIVE SenderSum(_, _)
SenderSum(f, T) ==
    IF T = {} THEN 0
    ELSE LET i == CHOOSE x \in T : TRUE
         IN (f[i] + SenderSum(f, T \ {i})) % Q

\* what ResharingRound2 has to leave in new participant j, VkShare apart:
\* SkShare the Lagrange sum of the sub-shares, Commitments of length t' with
\* the senders' PHIs[0] first and the Lagrange sums of the As after it, and
\* VerificationKey = Commitments[0]
Round2Written(j) ==
    LET np == newParticipants[j]
        sub == [i \in Senders |-> ScalarSetBytes(p2pRnd1Out[i][j].Value)]
    IN /\ np.SkShare = SenderSum([i \in Senders |-> (SenderCoeff(i) * sub[i]) % Q], Senders)
       /\ Len(np.Commitments) = np.Threshold
       /\ \A i \in Senders : np.Commitments[1] = bcastSent[i].PHIs[1]
       /\ \A k \in 1..(np.Threshold - 1) :
              np.Commitments[k + 1] =
                  SenderSum([i \in Senders |-> (SenderCoeff(i) * bcastSent[i].As[k + 1]) % Q],
                            Senders)
       /\ np.VerificationKey = np.Commitments[1]

\* C21: when ResharingRound2 succeeds for new participant j it has written
\* SkShare = sum of lambda_i * sub_share_i, Commitments of length t' with
\* Commitments[0] = PHIs[0] and Commitments[k] = sum of lambda_i * As_i[k],
\* VerificationKey = Commitments[0] and VkShare = g * SkShare.
C21_WriteBack ==
    \A j \in DOMAIN newParticipants :
        (Round2Returned(j) /\ ret.err = NoErr) =>
            /\ Round2Written(j)
            /\ newParticipants[j].VkShare = (GEN * newParticipants[j].SkShare) % Q

C21_Witness ==
    /\ ret = Ret("ResharingRound2Unchecked", 4, NoErr)
    /\ Senders = {1, 2, 3}
    /\ Round2Written(4)
    /\ newParticipants[4].Commitments[2] # PointIdentity
    /\ newParticipants[4].VkShare = Nil

\* C22: SampleUniqueUint32s(count, min, max) returns an error when
\* count > max - min, and otherwise returns exactly count pairwise-distinct
\* identifiers, each in [min, max) and each >= 1.
C22_SampleDistinct ==
    sample.pc = "done" =>
        IF sample.n > sample.max - sample.min
        THEN sample.err # "nil"
        ELSE /\ sample.err = "nil"
             /\ Len(sample.uniqueInts) = sample.n
             /\ NoDup(sample.uniqueInts)
             /\ \A k \in 1..Len(sample.uniqueInts) :
                    /\ sample.uniqueInts[k] >= sample.min
                    /\ sample.uniqueInts[k] < sample.max
                    /\ sample.uniqueInts[k] >= 1

\* every call of the sampler returns
SampleTerminates == <>(sample.pc = "done")

C22_Witness ==
    /\ sample.pc = "done"
    /\ sample.n = 2 /\ sample.min = 0 /\ sample.max = 3
    /\ sample.err = "nil"
    /\ sample.uniqueInts = <<2, 0>>

\* the round in which an operation of the GG20 resharing is accepted (0: the
\* operation is not one of those the round order is stated for)
RoundOf(op) ==
    CASE op = "ReshareRound1" -> 1
      [] op \in {"ReshareRound2", "ReshareRound2Accept"} -> 2
      [] op \in {"ReshareRound3", "ReshareRound3Accept"} -> 3
      [] op = "GetReshareResult" -> 4
      [] OTHER -> 0

\* the error of a call made in another round, as the claim names it
RoundErrorNamed(op, err) ==
    IF op = "GetReshareResult" THEN err = Err("resharing not complete", 0, 0)
    ELSE err = ErrInvalidRound

\* the error of a call made in another round: the checks that precede the
\* round check answer first for a participant without the share they look at
RoundErrorReturned(op, rp, err) ==
    IF op = "GetReshareResult" THEN err = Err("resharing not complete", 0, 0)
    ELSE IF op = "ReshareRound1" /\ rp.OldShare = NilPtr
    THEN err = Err("only old participants with shares can execute round 1", 0, 0)
    ELSE IF op = "ReshareRound3" /\ rp.NewShare = NilPtr
    THEN err = ErrNilArguments
    ELSE err = ErrInvalidRound

\* one call in the GG20 resharing keeps the round order; named tells whether
\* the error of a call in another round is the one the claim names
GG20RoundStep(named) ==
    \A id \in DOMAIN rps :
        /\ rps'[id].Round >= rps[id].Round
        /\ rps'[id].Round # rps[id].Round =>
               /\ gg20ret'.id = id
               /\ gg20ret'.op \in {"ReshareRound1", "ReshareRound1Accept",
                                   "ReshareRound2Accept", "ReshareRound3Accept"}
        /\ (gg20ret'.id = id /\ RoundOf(gg20ret'.op) # 0) =>
               /\ gg20ret'.status = "ok" => rps[id].Round = RoundOf(gg20ret'.op)
               /\ rps[id].Round # RoundOf(gg20ret'.op) =>
                      /\ gg20ret'.status = "error"
                      /\ gg20ret'.err # NoErr
                      /\ rps'[id] = rps[id]
                      /\ IF named THEN RoundErrorNamed(gg20ret'.op, gg20ret'.err)
                         ELSE RoundErrorReturned(gg20ret'.op, rps[id], gg20ret'.err)

\* C23 as stated: a ReshareParticipant starts at Round 1, its Round never
\* decreases, each operation is accepted only in its own round and returns
\* ErrInvalidRound or "resharing not complete" in any other, and only
\* ReshareRound1 and the Accept operations advance Round.
C23_RoundOrder ==
    /\ (gg20ret.op = "init" => \A id \in DOMAIN rps : rps[id].Round = 1)
    /\ [][GG20RoundStep(TRUE)]_gg20View

\* C23 with the errors the code returns: the same, with the error of a call in another round being
\* ErrInvalidRound or "resharing not complete" except for ReshareRound1 of a
\* participant without old share ("only old participants ...") and for
\* ReshareRound3 of a participant without new share (ErrNilArguments).
C23_RoundOrderErrors ==
    /\ (gg20ret.op = "init" => \A id \in DOMAIN rps : rps[id].Round = 1)
    /\ [][GG20RoundStep(FALSE)]_gg20View

C23_Witness ==
    /\ gg20ret.op = "ReshareRound3" /\ gg20ret.id = 3
    /\ gg20ret.err = ErrNilArguments
    /\ rps[3].Round = 1
    /\ rps[2].Round = 2
    /\ rps[2].NewShare # NilPtr

\* the error of a ReshareRound1 without old share
ErrOnlyOld == Err("only old participants with shares can execute round 1", 0, 0)

\* C24: ReshareRound1 of a participant that has no old share returns the 'only
\* old participants with shares can execute round 1' error, no message is
\* produced, and the participant is left as it was, in its round (Round 1 for
\* a participant that has not accepted shares yet)
C24_NoOldShare ==
    [][\A id \in DOMAIN rps :
          (gg20ret'.op = "ReshareRound1" /\ gg20ret'.id = id /\ rps[id].OldShare = NilPtr)
          => /\ gg20ret'.status = "error"
             /\ gg20ret'.err = ErrOnlyOld
             /\ DOMAIN gg20ret'.out = {}
             /\ round1Messages' = round1Messages
             /\ rps' = rps
             /\ (rps[id].Round = 1 => rps'[id].Round = 1)]_gg20View

C24_Witness ==
    /\ gg20ret.op = "ReshareRound1" /\ gg20ret.id = 3
    /\ gg20ret.err = ErrOnlyOld
    /\ rps[3].OldShare = NilPtr
    /\ rps[3].Round = 1
    /\ 3 \notin DOMAIN round1Messages

\* the round check of ReshareRound1Accept lets the call through: a participant
\* in round 1, or an old participant that has sent its shares
Round1AcceptInRound(rp) == rp.Round = 1 \/ (rp.OldShare # NilPtr /\ rp.Round = 2)

Round1MessageGood(rp, msg) ==
    /\ msg.ToID = rp.ID
    /\ Len(msg.Commitments) > 0
    /\ (GEN * msg.Share) % Q = CommitmentSum(msg.Commitments, rp.ID, Len(msg.Commitments))

\* the first message of the batch that must not be accepted, 0 if none
Round1FirstBad(rp, batch) ==
    IF \A k \in DOMAIN batch : Round1MessageGood(rp, batch[k]) THEN 0
    ELSE CHOOSE k \in DOMAIN batch :
            /\ ~Round1MessageGood(rp, batch[k])
            /\ \A j \in 1..(k - 1) : Round1MessageGood(rp, batch[j])

\* the error the claim names for a message that must not be accepted
Round1MessageError(rp, msg) ==
    IF msg.ToID # rp.ID
    THEN Err("received share for wrong participant", rp.ID, msg.ToID)
    ELSE Err("invalid share from participant", msg.FromID, 0)

\* a ReshareRound1Accept on a full batch, called in its round: accepted only
\* if every message is good; otherwise, when panics tells that a message
\* without commitments may end the call in a panic, either that or the error
\* of the first bad message, with NewShare and Round as they were
Round1AcceptStep(panics) ==
    \A id \in DOMAIN rps :
        (/\ gg20ret'.op = "ReshareRound1Accept" /\ gg20ret'.id = id
         /\ gg20ret'.adversarial)
        => LET rp == rps[id]
               batch == gg20ret'.out
               bad == Round1FirstBad(rp, batch)
           IN /\ gg20ret'.status = "ok" <=> bad = 0
              /\ bad = 0 => /\ rps'[id].NewShare # NilPtr
                            /\ rps'[id].Round = 2
              /\ bad # 0 =>
                     /\ rps'[id].NewShare = rp.NewShare
                     /\ rps'[id].Round = rp.Round
                     /\ IF /\ panics
                           /\ batch[bad].ToID = rp.ID
                           /\ verifyFeldmanSharePanics(batch[bad])
                        THEN gg20ret'.status = "panic"
                        ELSE /\ gg20ret'.status = "error"
                             /\ gg20ret'.err = Round1MessageError(rp, batch[bad])

\* C26: ReshareRound1Accept accepts a batch only if every message in it is
\* addressed to this participant and its share passes the Feldman
\* verification against the commitments of the message at the participant's
\* id; otherwise it returns the 'wrong participant' error or the 'invalid
\* share from participant' error naming the sender, sets no NewShare and does
\* not advance Round
C26_Round1Accept == [][Round1AcceptStep(FALSE)]_gg20View

\* the same, but for a message without commitments, on which the call panics
C26_Round1AcceptPanics == [][Round1AcceptStep(TRUE)]_gg20View

\* a batch whose second message has no commitments has reached participant 3
C26_Witness ==
    /\ gg20ret.op = "ReshareRound1Accept" /\ gg20ret.id = 3
    /\ gg20ret.adversarial
    /\ Round1MessageGood([ID |-> 3], gg20ret.out[1])
    /\ gg20ret.out[2].ToID = 3
    /\ gg20ret.out[2].Commitments = <<>>
    /\ gg20ret.status = "panic"
    /\ rps[3].NewShare = NilPtr

\* the Lagrange basis polynomial of i over the ids S and i, at 0
RECURSIVE BasisAtZero(_, _)
BasisAtZero(i, S) ==
    IF S = {} THEN 1
    ELSE LET j == CHOOSE x \in S : TRUE
         IN BigMod(BasisAtZero(i, S \ {j}) * BigMod(0 - j, Q)
                   * BigModInverse(BigMod(i - j, Q), Q), Q)

\* the value at 0 of the polynomial through the new shares of the parties T
RECURSIVE CombineNewShares(_, _)
CombineNewShares(T, rest) ==
    IF rest = {} THEN 0
    ELSE LET i == CHOOSE x \in rest : TRUE
         IN BigMod(rps[i].NewShare.Value * BasisAtZero(i, T \ {i})
                   + CombineNewShares(T, rest \ {i}), Q)

\* every new party has accepted the shares of the old parties
AllNewShares == \A j \in NewParties : rps[j].NewShare # NilPtr

\* C27: once every old party has run ReshareRound1 and every new party has
\* accepted the complete honest batch, any NewThreshold new shares combine at
\* 0 to the secret the old shares share, each NewShare.Point is g times the
\* share value, and GetReshareResult reports the original public key g * x
C27_KeyPreserved ==
    /\ AllNewShares =>
           /\ \A T \in SUBSET NewParties :
                  Cardinality(T) = GG20Config0.NewThreshold
                  => CombineNewShares(T, T) = dealerShares.secret
           /\ \A j \in NewParties :
                  rps[j].NewShare.Point = (GEN * rps[j].NewShare.Value) % Q
    /\ (gg20ret.op = "GetReshareResult" /\ gg20ret.status = "ok") =>
           /\ AllNewShares
           /\ gg20ret.out.EcdsaPublicKey = (GEN * dealerShares.secret) % Q
           /\ gg20ret.out.EcdsaPublicKey = dealerShares.publicKey
           /\ gg20ret.out.SecretKeyShare = rps[gg20ret.id].NewShare

\* a 2-of-2 sharing has become a 3-of-3 sharing of the same key, and party 1
\* holds another share than before
C27_Witness ==
    /\ gg20ret.op = "GetReshareResult" /\ gg20ret.status = "ok" /\ gg20ret.id = 1
    /\ GG20Config0.NewThreshold = 3
    /\ NewParties = {1, 2, 3}
    /\ rps[1].NewShare.Value # rps[1].OldShare.Value
    /\ CombineNewShares({1, 2, 3}, {1, 2, 3}) = dealerShares.secret

\* the messages of the list that carry a nil key
NilKeyMessages(messages) == {k \in DOMAIN messages : messages[k].PublicKey = Nil}

\* the new parties other than id of which the list has no message
MissingKeys(id, messages) ==
    {j \in NewParties \ {id} : \A k \in DOMAIN messages : messages[k].ParticipantID # j}

Least(S) == CHOOSE x \in S : \A y \in S : x <= y

\* C28: ReshareRound2Accept, called in its round, succeeds only if the
\* messages hold a non-nil Paillier key of every new party other than the
\* participant; a message with a nil key or a new party without message
\* makes it return an error that names that participant, Round staying 2; on
\* success the key map has an entry for every new party and for the
\* participant itself and Round is 3
C28_Round2Accept ==
    [][\A id \in DOMAIN rps :
          (/\ gg20ret'.op = "ReshareRound2Accept" /\ gg20ret'.id = id
           /\ gg20ret'.adversarial)
          => LET messages == gg20ret'.out
                 nilKeys == NilKeyMessages(messages)
                 missing == MissingKeys(id, messages)
             IN /\ gg20ret'.status = "ok" <=> (nilKeys = {} /\ missing = {})
                /\ nilKeys # {} =>
                       /\ gg20ret'.status = "error"
                       /\ gg20ret'.err = Err("nil Paillier key from participant",
                                             messages[Least(nilKeys)].ParticipantID, 0)
                       /\ rps'[id].Round = 2
                /\ (nilKeys = {} /\ missing # {}) =>
                       /\ gg20ret'.status = "error"
                       /\ gg20ret'.err.msg = "missing Paillier key from participant"
                       /\ gg20ret'.err.i \in missing
                       /\ rps'[id].Round = 2
                /\ (nilKeys = {} /\ missing = {}) =>
                       /\ NewParties \cup {id} \subseteq DOMAIN rps'[id].paillierKeys
                       /\ \A j \in DOMAIN rps'[id].paillierKeys :
                              rps'[id].paillierKeys[j] # Nil
                       /\ rps'[id].paillierKeys[id] = rps[id].PaillierPubKey
                       /\ rps'[id].Round = 3]_gg20View

\* party 1 of the new parties 1, 2, 3 has accepted the keys of 2 and 3
C28_Witness ==
    /\ gg20ret.op = "ReshareRound2Accept" /\ gg20ret.id = 1
    /\ gg20ret.adversarial
    /\ gg20ret.status = "ok"
    /\ {gg20ret.out[k].ParticipantID : k \in DOMAIN gg20ret.out} = {2, 3}
    /\ DOMAIN rps[1].paillierKeys = {1, 2, 3}
    /\ rps[1].Round = 3

\* the messages of the list that carry a nil public share
NilShareMessages(messages) == {k \in DOMAIN messages : messages[k].PublicShare = Nil}

\* the parties whose public share the participant id holds after the list
SharesHeld(id, messages) == {id} \cup {messages[k].ParticipantID : k \in DOMAIN messages}

\* the participant holds a share of every new participant
HoldsAllNew(id, messages) == NewParties \subseteq SharesHeld(id, messages)

\* the participant holds as many shares as there are new participants
HoldsAsMany(id, messages) == Cardinality(SharesHeld(id, messages)) = Cardinality(NewParties)

\* C29: ReshareRound3Accept succeeds, Round becoming 4, only if with its own
\* public share the participant holds a non-nil public share of every new
\* participant; a nil public share or a missing new participant makes it
\* return the 'nil public share' or the 'missing public shares' error and
\* leaves Round at 3
C29_Round3Accept ==
    [][\A id \in DOMAIN rps :
          (/\ gg20ret'.op = "ReshareRound3Accept" /\ gg20ret'.id = id
           /\ gg20ret'.adversarial)
          => LET messages == gg20ret'.out
                 nilShares == NilShareMessages(messages)
             IN /\ gg20ret'.status = "ok" =>
                       /\ nilShares = {}
                       /\ HoldsAllNew(id, messages)
                       /\ rps'[id].Round = 4
                /\ nilShares # {} =>
                       /\ gg20ret'.status = "error"
                       /\ gg20ret'.err = Err("nil public share from participant",
                                             messages[Least(nilShares)].ParticipantID, 0)
                       /\ rps'[id].Round = 3
                /\ (nilShares = {} /\ ~HoldsAllNew(id, messages)) =>
                       /\ gg20ret'.status = "error"
                       /\ gg20ret'.err.msg = "missing public shares"
                       /\ rps'[id].Round = 3]_gg20View

\* what the code does: the shares held are counted
C29_Round3AcceptCounts ==
    [][\A id \in DOMAIN rps :
          (/\ gg20ret'.op = "ReshareRound3Accept" /\ gg20ret'.id = id
           /\ gg20ret'.adversarial)
          => LET messages == gg20ret'.out
                 nilShares == NilShareMessages(messages)
             IN /\ gg20ret'.status = "ok" <=>
                       (nilShares = {} /\ HoldsAsMany(id, messages))
                /\ gg20ret'.status = "ok" => rps'[id].Round = 4
                /\ nilShares # {} =>
                       /\ gg20ret'.status = "error"
                       /\ gg20ret'.err = Err("nil public share from participant",
                                             messages[Least(nilShares)].ParticipantID, 0)
                       /\ rps'[id].Round = 3
                /\ (nilShares = {} /\ ~HoldsAsMany(id, messages)) =>
                       /\ gg20ret'.status = "error"
                       /\ gg20ret'.err.msg = "missing public shares"
                       /\ rps'[id].Round = 3]_gg20View

\* party 2 of the new parties 2 and 3 has completed round 3 on the public
\* share of party 1 alone
C29_Witness ==
    /\ gg20ret.op = "ReshareRound3Accept" /\ gg20ret.id = 2
    /\ gg20ret.adversarial
    /\ NewParties = {2, 3}
    /\ Len(gg20ret.out) = 1
    /\ gg20ret.out[1].ParticipantID = 1
    /\ gg20ret.status = "ok"
    /\ rps[2].Round = 4
    /\ 3 \notin DOMAIN rps[2].publicShares

\* the participants that have completed the resharing
Completed == {i \in DOMAIN rps : GetReshareResult(rps[i]).status = "ok"}

\* the Paillier decryption key GetReshareResult gives participant i
ResultKey(i) == GetReshareResult(rps[i]).out.DecryptKey

\* C30: the Paillier keys are regenerated: the decryption key in the
\* GetReshareResult output of a participant that completes the resharing
\* differs from the key it held before, and two participants do not end up
\* with the same key
C30_PaillierRegenerated ==
    \A i \in Completed :
        /\ i \in OldParties => ResultKey(i) # OldDecryptKey(i)
        /\ \A j \in Completed \ {i} : ResultKey(i) # ResultKey(j)

\* the new parties 3 and 4 have taken over from 1 and 2 and hold one and the
\* same Paillier key, the one of the fixed primes
C30_Witness ==
    /\ gg20ret.op = "GetReshareResult" /\ gg20ret.status = "ok" /\ gg20ret.id = 4
    /\ Completed = {3, 4}
    /\ ResultKey(3) = ResultKey(4)
    /\ gg20ret.out.DecryptKey = PaillierNewSecretKey(PaillierP, PaillierQ)

\* the last call was a ReshareRound1Accept that returned nil
Round1Accepted == gg20ret.op = "ReshareRound1Accept" /\ gg20ret.status = "ok"

\* C31: ReshareRound1Accept succeeds for a new participant only if at least
\* OldThreshold old participants have taken part by contributing round 1
\* shares
C31_OldThresholdTookPart ==
    Round1Accepted =>
        Cardinality(DOMAIN round1Messages \cap OldParties) >= GG20Config0.OldThreshold

\* party 3 has accepted the share of old party 1, handed over twice, when
\* party 2 of the 2-of-2 sharing has not dealt
C31_Witness ==
    /\ Round1Accepted /\ gg20ret.id = 3
    /\ GG20Config0.OldThreshold = 2
    /\ DOMAIN round1Messages = {1}
    /\ Len(gg20ret.out) = 2
    /\ gg20ret.out[1] = gg20ret.out[2]
    /\ rps[3].NewShare # NilPtr
    /\ rps[3].Round = 2

\* some old party has dealt a sharing whose constant term is not its old
\* share times its Lagrange coefficient
DealtOtherValue ==
    \E i \in OldParties :
        /\ rps[i].Round >= 2
        /\ rps[i].coefficients[1] #
               BigMod(rps[i].OldShare.Value
                      * calculateLagrangeCoefficient(i, rps[i].Config.OldParties, Q), Q)

\* what GetReshareResult gives the participants that have completed
ResultData == [i \in Completed |-> GetReshareResult(rps[i]).out]

\* C32: a run in which some old participant deals a self-consistent Feldman
\* sharing of a value other than its Lagrange-adjusted old share is rejected:
\* no participant reaches Round 4 and no GetReshareResult succeeds
C32_PublicKeyVerified ==
    DealtOtherValue =>
        /\ \A i \in DOMAIN rps : rps[i].Round # 4
        /\ Completed = {}

\* old party 1 has dealt another value, yet every new party has completed,
\* the new shares are shares of another key, and VerifyReshareResult passes
C32_Witness ==
    /\ DealtOtherValue
    /\ gg20ret.op = "GetReshareResult" /\ gg20ret.status = "ok"
    /\ Completed = NewParties
    /\ \E T \in SUBSET NewParties :
           /\ Cardinality(T) = GG20Config0.NewThreshold
           /\ CombineNewShares(T, T) # dealerShares.secret
    /\ VerifyReshareResult(ResultData, dealerShares.publicKey) = NoErr

\* ------------------------------------------------------------------------
\* C33: ResharingRound1 and ResharingRound2 leave the old participants as
\* they were: no step of a resharing run changes an old participant's
\* SkShare, Commitments or VerificationKey, the PHIs of every broadcast stay
\* the sender's Commitments, and every old share still verifies under them.
\* ------------------------------------------------------------------------
OldShareVerifies(p) ==
    EvalCommitmentPoly(p.Commitments, ScalarNew(p.Id)) = ScalarBaseMult(p.SkShare)

OldUntouched ==
    /\ participants' = participants
    /\ \A i \in DOMAIN bcastRnd1Out' : bcastRnd1Out'[i].PHIs = participants[i].Commitments
    /\ \A i \in DOMAIN participants : OldShareVerifies(participants'[i])

C33_OldUntouched == [][OldUntouched]_vars

\* a new participant has completed ResharingRound2 on the shared broadcasts
C33_Witness ==
    /\ ret.op = "ResharingRound2Unchecked"
    /\ ret.err = NoErr
    /\ \E j \in DOMAIN newParticipants : newParticipants[j].SkShare # Nil
    /\ \A i \in DOMAIN bcastRnd1Out :
           /\ bcastRnd1Out[i].PHIs = participants[i].Commitments
           /\ OldShareVerifies(participants[i])

\* ------------------------------------------------------------------------
\* C34: whenever ResharingRound2 returns an error (a structural check, a
\* sub-share that does not decode, a sub-share that fails verification, or
\* any other), the participant's SkShare, Commitments, VerificationKey and
\* VkShare are what they were before the call.
\* ------------------------------------------------------------------------
InputCall(j) ==
    /\ ret'.op \in {"ResharingRound2", "ResharingRound2Unchecked"}
    /\ ret'.id = j

KeyMaterial(dp) == <<dp.SkShare, dp.Commitments, dp.VerificationKey, dp.VkShare>>

C34_Step ==
    \A j \in DOMAIN newParticipants :
        (InputCall(j) /\ call'.status = "error") =>
            /\ ret'.err # NoErr
            /\ KeyMaterial(newParticipants'[j]) = KeyMaterial(newParticipants[j])

C34_ErrorKeepsShare == [][C34_Step]_vars

\* a participant that holds a share from an earlier call is handed a
\* sub-share that is not the one sent, and the call returns "invalid share"
C34_Witness ==
    /\ call.op = "ResharingRound2Unchecked"
    /\ call.status = "error"
    /\ ret.err.msg = "invalid share"
    /\ call.kind = "wrong"
    /\ newParticipants[call.id].SkShare # Nil
    /\ newParticipants[call.id].VerificationKey = participants[1].VerificationKey

\* ------------------------------------------------------------------------
\* C35: a call of ResharingRound2 on a broadcast map and a sub-share map of
\* the same size of which some sender of the first has no entry in the
\* second returns an error to its caller; it does not dereference the
\* missing entry.
\* ------------------------------------------------------------------------
SenderMismatch ==
    /\ Cardinality(call'.bcast) = Cardinality(call'.p2psend)
    /\ call'.bcast \ call'.p2psend # {}

C35_Step ==
    \A j \in DOMAIN newParticipants :
        (InputCall(j) /\ SenderMismatch) =>
            /\ call'.status = "error"
            /\ ret'.err # NoErr
            /\ ~crashed'

C35_MismatchIsError == [][C35_Step]_vars

\* the first definition, past its structural checks, has looked up the
\* sub-share of a sender that p2psend does not hold
C35_Witness ==
    /\ call.op = "ResharingRound2"
    /\ Cardinality(call.bcast) = Cardinality(call.p2psend)
    /\ call.bcast \ call.p2psend # {}
    /\ call.status = "panic"
    /\ crashed
    /\ ret.err.msg = "nil pointer dereference"
    /\ ret.err.i \in call.bcast \ call.p2psend

\* ------------------------------------------------------------------------
\* C36: a call of ResharingRound2 on a broadcast map with fewer senders than
\* the old threshold (the length of the senders' PHIs) does not complete: it
\* writes no SkShare and no VerificationKey into the participant.
\* ------------------------------------------------------------------------
TooFewSenders ==
    \A i \in call'.bcast : Cardinality(call'.bcast) < Len(bcastRnd1Out[i].PHIs)

C36_Step ==
    \A j \in DOMAIN newParticipants :
        (InputCall(j) /\ TooFewSenders) =>
            /\ call'.status # "ok"
            /\ KeyMaterial(newParticipants'[j]) = KeyMaterial(newParticipants[j])

OnPrivateCopy(j, S) ==
    ResharingRound2Unchecked(newParticipants[j], DkgThreshold, bcastSent, P2pFor(j), S)

C37_SharedBroadcasts ==
    \A j \in DOMAIN newParticipants :
        (/\ ret.op = "ResharingRound2Unchecked"
         /\ ret.id = j
         /\ Cardinality(DOMAIN bcastSent) >= DkgThreshold) =>
            /\ ret.err = NoErr
            /\ ~crashed
            /\ \A S \in Orders(DOMAIN bcastSent) :
                   LET h == OnPrivateCopy(j, S)
                   IN /\ h.status = "ok"
                      /\ h.dp.Commitments = newParticipants[j].Commitments
            /\ \A k \in DOMAIN newParticipants :
                   newParticipants[k].SkShare # Nil =>
                       newParticipants[k].Commitments = newParticipants[j].Commitments

\* the last of three new participants has completed on the shared broadcasts
C37_Witness ==
    /\ ret.op = "ResharingRound2Unchecked"
    /\ ret.err = NoErr
    /\ Cardinality(DOMAIN newParticipants) = 3
    /\ Cardinality(DOMAIN bcastSent) >= DkgThreshold
    /\ \A k \in DOMAIN newParticipants :
           /\ newParticipants[k].SkShare # Nil
           /\ newParticipants[k].Commitments = newParticipants[ret.id].Commitments
    /\ \A i \in DOMAIN bcastRnd1Out :
           bcastRnd1Out[i].As[1] = EvalCommitmentPoly(bcastRnd1Out[i].PHIs, ScalarNew(i))

\* ------------------------------------------------------------------------
\* C38: in every reachable state of the GG20 resharing a participant whose
\* Round is 3 or 4 holds a NewShare with its Point, and no call of
\* ReshareRound3Accept has dereferenced a missing NewShare.
\* ------------------------------------------------------------------------
HoldsNewShare(rp) == rp.NewShare # NilPtr /\ rp.NewShare.Point # Nil

C38_NewShareSet ==
    /\ \A id \in DOMAIN rps : rps[id].Round \in {3, 4} => HoldsNewShare(rps[id])
    /\ ~(gg20ret.op = "ReshareRound3Accept" /\ gg20ret.status = "panic")
    /\ ~(gg20ret.op = "GetReshareResult" /\ gg20ret.err = Err("no new share generated", 0, 0))

\* an old participant that has dealt in round 1 and collected the Paillier
\* keys in round 2 is in Round 3 without a NewShare, and its
\* ReshareRound3Accept has read NewShare.Point
C38_Witness ==
    /\ gg20ret.op = "ReshareRound3Accept"
    /\ gg20ret.status = "panic"
    /\ gg20ret.err.msg = "nil pointer dereference"
    /\ rps[gg20ret.id].Round = 3
    /\ rps[gg20ret.id].OldShare # NilPtr
    /\ rps[gg20ret.id].NewShare = NilPtr
    /\ gg20ret.id \in Range(rps[gg20ret.id].Config.NewParties)

C39_Step ==
    \A id \in DOMAIN rps :
        (Stays(id) /\ gg20ret'.id = id) =>
            /\ gg20ret'.op = "ReshareRound1" =>
                   /\ (gg20ret'.status = "ok") = (rps[id].Round = 1)
                   /\ gg20ret'.status = "ok" =>
                          /\ rps'[id].Round = 2
                          /\ rps'[id].NewShare = rps[id].NewShare
                          /\ id \in DOMAIN round1Messages'
                   /\ rps[id].Round # 1 =>
                          /\ gg20ret'.err = ErrInvalidRound
                          /\ rps' = rps
                          /\ round1Messages' = round1Messages
            /\ (gg20ret'.op = "ReshareRound1Accept" /\ gg20ret'.status = "ok") =>
                   /\ rps[id].Round \in {1, 2}
                   /\ rps'[id].Round = 2
                   /\ HoldsNewShare(rps'[id])

BatchSenders(batch) == {batch[k].FromID : k \in DOMAIN batch}

BatchSum(batch) == SumMod([k \in DOMAIN batch |-> batch[k].Share], Len(batch))

C40_ExactSum ==
    (gg20ret.op = "ReshareRound1Accept" /\ gg20ret.status = "ok") =>
        /\ BatchSenders(gg20ret.out) = OldParties
        /\ Cardinality(BatchSenders(gg20ret.out)) = Len(gg20ret.out)
        /\ DOMAIN rps[gg20ret.id].receivedShares = OldParties
        /\ rps[gg20ret.id].NewShare.Value = BatchSum(gg20ret.out)

\* a call on one message of each old party has succeeded, and the share that
\* an earlier, rejected call stored for a sender outside OldParties is part
\* of NewShare
C40_Witness ==
    /\ gg20ret.op = "ReshareRound1Accept"
    /\ gg20ret.status = "ok"
    /\ BatchSenders(gg20ret.out) = OldParties
    /\ Cardinality(BatchSenders(gg20ret.out)) = Len(gg20ret.out)
    /\ Outsider \in DOMAIN rps[gg20ret.id].receivedShares
    /\ rps[gg20ret.id].NewShare.Value
           = BigMod(BatchSum(gg20ret.out) + rps[gg20ret.id].receivedShares[Outsider], Q)
    /\ rps[gg20ret.id].NewShare.Value # BatchSum(gg20ret.out)

====
